---------------------------- MODULE Spec2Model ----------------------------
(***************************************************************************)
(* A model of the Nx I/O tracer (tracer-nx.mjs and its sibling tracers):   *)
(* the event normalizers of the three trace backends, the classification   *)
(* of the observed accesses against the declared inputs and outputs, and   *)
(* the run of main() from the command line to process.exit.                *)
(*                                                                         *)
(* Strings are sequences of characters.  A character of the model is a     *)
(* TLA+ string: "/" and "." are the path separator and the dot, and every  *)
(* other character stands for a run of name characters that holds neither  *)
(* ("ws", "node_modules", "O_RDONLY").  startsWith, includes, split, join  *)
(* and relative are computed on these sequences as the JavaScript code     *)
(* computes them on its strings.                                           *)
(***************************************************************************)
EXTENDS Naturals, Integers, Sequences, FiniteSets, TLC

VARIABLES
    \* ---- event normalizer (parseStraceOutput, parseFsUsageOutput, IoTracer)
    backend,        \* "strace" | "fs_usage" | "bpftrace" ("none": not chosen yet)
    workspaceRoot,  \* CONFIG.workspaceRoot, an absolute path
    rawTrace,       \* the records the tracer has emitted so far, in order
    normPc,         \* "tracing" | "parsed" ("main" in the runs of main())
    reads,          \* the reads of the result (a set of relative paths)
    writes,         \* the writes of the result
    trackedPids,    \* IoTracer.trackedPids
    \* ---- main() of the Nx tracer
    pc,             \* where main() is
    argv,           \* process.argv.slice(2)
    platform,       \* os.platform()
    isRoot,         \* process.getuid() === 0
    nx,             \* the Nx workspace that answers the queries
    project,        \* the project of the request
    target,         \* the target of the request
    taskConfigs,    \* the configs getTaskConfig returned
    resolvedInputs, \* [known, files]; known is FALSE for null
    tracerProc,     \* the strace / fs_usage process: "none" | "running" | "exited" | "failed"
    targetProc,     \* the traced task: "none" | "running" | "exited"
    taskExit,       \* results.exitCode: <<>> before the task closes, then <<code>>
    readBack,       \* readFileSync of the trace output: "none" | "read" | "failed"
    outputStream,   \* the write stream of the fs_usage output file:
                    \* "none" | "open" | "ended" | "closed"
    allProjectRoots,
    undeclaredReads,
    undeclaredWrites,
    crossProjectReads,
    relevantReads,  \* the FILES READ listing: [file, declared] per line
    relevantWrites, \* the FILES WRITTEN listing
    report,         \* the JSON output: <<>> before it is printed, then <<object>>
    procExit,       \* <<>> while the tracer runs, <<code>> once it has exited
    \* ---- expandInputs / resolveNamedInput, call by call
    namedInputsCache, \* _namedInputsCache: the namedInputs of nx.json
    expandingInputs,  \* expandInputs: its inputs argument
    nextInput,        \* expandInputs: the index the for loop is at (from 1)
    callStack,        \* one frame per flatMap in progress: the patterns left
    visitedInputs,    \* the visited Set of the resolveNamedInput call
    resolvedPatterns, \* what the resolveNamedInput call has returned so far
    expandResult,     \* expandInputs: [patterns, negations]
    resolvePc,        \* "idle" | "loop" | "resolving" | "returned"
    \* ---- matchesPatterns, called on its own
    tracerFile,       \* the script that runs: "part_002" | "tracer-nx.mjs" | "tracer-strace.mjs"
    matchFile,        \* its filePath argument
    matchInputs,      \* its inputs argument
    matchRoot,        \* its projectRoot argument
    matchResult,      \* <<>> before the call, then <<what it returned>>
    \* ---- two invocations of the tracer on one host
    tmpFile,          \* CONFIG.straceOutputFile: <<>> if absent, else <<its inode>>
    inodes,           \* the lines of each inode, by number
    invocations,      \* per invocation: where it is, its strace's descriptor
                      \* and offset, what its task opened, what it reports
    \* ---- main() of the bpftrace tracer and its IoTracer
    bpfPc,            \* where main() is
    bpfProcess,       \* IoTracer.bpfProcess: "null" | "set"
    isRunning,        \* IoTracer.isRunning
    pollInterval,     \* IoTracer.pollInterval: 0 for null, else the timer
    activeTimers,     \* the setInterval timers that have not been cleared
    timersCreated,    \* how many setInterval calls were made
    startPromise,     \* the promise of start(): "none" | "pending" | "resolved" | "rejected"
    startupTimeout,   \* the 5 s timer of start(): "none" | "armed" | "fired"
    cleanupCalls,     \* calls of cleanup() made after main() was done
    \* ---- main() of the batch runner (run-all-traces)
    batchPc,          \* where main() is
    batchQueue,       \* the tasks the loops have not reached
    tracerOutputs,    \* what the tracer printed for each task traced
    allResults,       \* allResults
    issuesFound,      \* issuesFound
    resultFiles,      \* results/<project>__<target>.json, by file name
    batchConsole,     \* the verdict printed for each task traced
    resultsMd,        \* what the last updateResultsFile wrote to RESULTS.md
    summary           \* summary.json: <<>> until it is written

normVars == <<backend, workspaceRoot, rawTrace, normPc, reads, writes, trackedPids>>

envVars == <<argv, platform, isRoot, nx>>
taskVars == <<project, target, taskConfigs, resolvedInputs>>
procVars == <<tracerProc, targetProc, taskExit, readBack, outputStream>>
classVars == <<allProjectRoots, undeclaredReads, undeclaredWrites, crossProjectReads,
               relevantReads, relevantWrites, report>>
mainVars == <<pc, envVars, taskVars, procVars, classVars, procExit>>

resolveVars == <<namedInputsCache, expandingInputs, nextInput, callStack, visitedInputs,
                 resolvedPatterns, expandResult, resolvePc>>

matchVars == <<tracerFile, matchFile, matchInputs, matchRoot, matchResult>>

\* The components a run of main() or of a normalizer does not step.
overlapVars == <<tmpFile, inodes, invocations>>

bpfVars == <<bpfPc, bpfProcess, isRunning, pollInterval, activeTimers, timersCreated,
             startPromise, startupTimeout, cleanupCalls>>

batchVars == <<batchPc, batchQueue, tracerOutputs, allResults, issuesFound, resultFiles,
               batchConsole, resultsMd, summary>>

moreVars == <<bpfVars, batchVars>>

sideVars == <<resolveVars, matchVars, overlapVars, moreVars>>

vars == <<normVars, mainVars, sideVars>>

\* main() is not running: the state of its variables while a normalizer is
\* exercised on its own.
MainIdle ==
    /\ pc = "idle"
    /\ argv = <<>>
    /\ platform = "linux"
    /\ isRoot = FALSE
    /\ nx = <<>>
    /\ project = <<>>
    /\ target = <<>>
    /\ taskConfigs = <<>>
    /\ resolvedInputs = [known |-> FALSE, files |-> {}]
    /\ tracerProc = "none"
    /\ targetProc = "none"
    /\ taskExit = <<>>
    /\ readBack = "none"
    /\ outputStream = "none"
    /\ allProjectRoots = <<>>
    /\ undeclaredReads = {}
    /\ undeclaredWrites = {}
    /\ crossProjectReads = {}
    /\ relevantReads = {}
    /\ relevantWrites = {}
    /\ report = <<>>
    /\ procExit = <<>>

\* expandInputs is not running.
ResolveIdle ==
    /\ namedInputsCache = <<>>
    /\ expandingInputs = <<>>
    /\ nextInput = 1
    /\ callStack = <<>>
    /\ visitedInputs = {}
    /\ resolvedPatterns = <<>>
    /\ expandResult = [patterns |-> <<>>, negations |-> <<>>]
    /\ resolvePc = "idle"

\* matchesPatterns is not being called on its own.
MatchIdle ==
    /\ tracerFile = "part_002"
    /\ matchFile = <<>>
    /\ matchInputs = <<>>
    /\ matchRoot = <<>>
    /\ matchResult = <<>>

\* No second invocation is modelled.
OverlapIdle ==
    /\ tmpFile = <<>>
    /\ inodes = <<>>
    /\ invocations = <<>>

\* No IoTracer has been constructed.
BpfIdle ==
    /\ bpfPc = "idle"
    /\ bpfProcess = "null"
    /\ isRunning = FALSE
    /\ pollInterval = 0
    /\ activeTimers = {}
    /\ timersCreated = 0
    /\ startPromise = "none"
    /\ startupTimeout = "none"
    /\ cleanupCalls = 0

\* The batch runner is not running.
BatchIdle ==
    /\ batchPc = "idle"
    /\ batchQueue = <<>>
    /\ tracerOutputs = <<>>
    /\ allResults = <<>>
    /\ issuesFound = <<>>
    /\ resultFiles = <<>>
    /\ batchConsole = <<>>
    /\ resultsMd = <<>>
    /\ summary = <<>>

MoreIdle == BpfIdle /\ BatchIdle

SideIdle == ResolveIdle /\ MatchIdle /\ OverlapIdle /\ MoreIdle

-----------------------------------------------------------------------------
(* Bounds of the model. *)

\* The longest raw trace (in records) a normalizer is run on.
MaxLines == 2

\* The most accesses (reads plus writes) a classification is run on.
MaxAccesses == 4

\* The largest exit code of the traced task.
MaxExitCode == 1

-----------------------------------------------------------------------------
(* String.prototype helpers. *)

StartsWith(s, p) == Len(p) <= Len(s) /\ SubSeq(s, 1, Len(p)) = p

Includes(s, sub) ==
    \E i \in 1..(Len(s) - Len(sub) + 1) : SubSeq(s, i, i + Len(sub) - 1) = sub

RECURSIVE SplitOn(_, _)
SplitOn(s, sep) ==
    IF \A i \in 1..Len(s) : s[i] # sep
    THEN <<s>>
    ELSE LET i == CHOOSE k \in 1..Len(s) :
                      s[k] = sep /\ \A j \in 1..(k - 1) : s[j] # sep
         IN  <<SubSeq(s, 1, i - 1)>> \o SplitOn(SubSeq(s, i + 1, Len(s)), sep)

RECURSIVE JoinWith(_, _)
JoinWith(segs, sep) ==
    IF Len(segs) = 0 THEN <<>>
    ELSE IF Len(segs) = 1 THEN segs[1]
    ELSE segs[1] \o <<sep>> \o JoinWith(Tail(segs), sep)

-----------------------------------------------------------------------------
(* Node's path module (posix). *)

Dot == <<".">>
DotDot == <<".", ".">>

IsAbsolute(p) == Len(p) > 0 /\ p[1] = "/"

\* normalizeString: the segments of a path with "", "." dropped and ".."
\* resolved; above the start ".." is kept only when allowAboveRoot.
RECURSIVE NormalizeSegs(_, _, _)
NormalizeSegs(segs, acc, allowAboveRoot) ==
    IF Len(segs) = 0 THEN acc
    ELSE LET s == Head(segs)
             rest == Tail(segs)
         IN  IF s = <<>> \/ s = Dot
             THEN NormalizeSegs(rest, acc, allowAboveRoot)
             ELSE IF s = DotDot
             THEN IF Len(acc) > 0 /\ acc[Len(acc)] # DotDot
                  THEN NormalizeSegs(rest, SubSeq(acc, 1, Len(acc) - 1), allowAboveRoot)
                  ELSE IF allowAboveRoot
                  THEN NormalizeSegs(rest, Append(acc, DotDot), allowAboveRoot)
                  ELSE NormalizeSegs(rest, acc, allowAboveRoot)
             ELSE NormalizeSegs(rest, Append(acc, s), allowAboveRoot)

\* path.normalize, once normalizeString has produced the body: "." for an
\* empty relative path, the trailing separator kept, the root put back.
NormalizedPath(abs, trailing, body) ==
    IF Len(body) = 0
    THEN IF abs THEN <<"/">> ELSE IF trailing THEN <<".", "/">> ELSE Dot
    ELSE (IF abs THEN <<"/">> ELSE <<>>) \o body \o (IF trailing THEN <<"/">> ELSE <<>>)

\* path.normalize
PathNormalize(p) ==
    IF Len(p) = 0 THEN Dot
    ELSE NormalizedPath(IsAbsolute(p), p[Len(p)] = "/",
             JoinWith(NormalizeSegs(SplitOn(p, "/"), <<>>, ~IsAbsolute(p)), "/"))

\* path.join(a, b): the non-empty arguments joined with "/", normalized.
PathJoin(a, b) ==
    IF Len(a) = 0 /\ Len(b) = 0 THEN Dot
    ELSE PathNormalize(IF Len(a) = 0 THEN b
                       ELSE IF Len(b) = 0 THEN a
                       ELSE a \o <<"/">> \o b)

\* path.resolve(p), as segments; the working directory of every tracer is
\* its workspace root.
ResolveSegs(cwd, p) ==
    IF IsAbsolute(p)
    THEN NormalizeSegs(SplitOn(p, "/"), <<>>, FALSE)
    ELSE NormalizeSegs(SplitOn(cwd \o <<"/">> \o p, "/"), <<>>, FALSE)

CommonPrefixLen(f, t) ==
    LET n == IF Len(f) < Len(t) THEN Len(f) ELSE Len(t)
        same == {k \in 0..n : \A j \in 1..k : f[j] = t[j]}
    IN  CHOOSE k \in same : \A m \in same : m <= k

\* path.relative(from, to)
PathRelative(cwd, from, to) ==
    LET f == ResolveSegs(cwd, from)
        t == ResolveSegs(cwd, to)
        c == CommonPrefixLen(f, t)
        ups == [i \in 1..(Len(f) - c) |-> DotDot]
    IN  JoinWith(ups \o SubSeq(t, c + 1, Len(t)), "/")

-----------------------------------------------------------------------------
(* Configuration. *)

\* CONFIG.ignoredDirs of the Nx tracer.
CONFIG_ignoredDirs ==
    { <<"node_modules">>, <<".", "nx">>, <<".", "git">>, <<".", "angular">>,
      <<".", "pnpm-store">>, <<"proc">>, <<"dev">>, <<"sys">>, <<"private">>,
      <<"var">>, <<"tmp">> }

\* CONFIG.ignoredDirs of the bpftrace tracer.
BpfIgnoredDirs ==
    { <<"node_modules">>, <<".", "nx">>, <<".", "git">>, <<".", "angular">> }

IgnoredDirsOf(b) == IF b = "bpftrace" THEN BpfIgnoredDirs ELSE CONFIG_ignoredDirs

-----------------------------------------------------------------------------
(* Event normalizer. *)

\* A record of a raw trace.  kind "openat" is a strace line
\*   openat(AT_FDCWD, "<path>", <flags>) = <ret>
\* kind "open" is an fs_usage line   <time> open F=<fd> (<flags>) <path> ...
\* kinds "R" and "W" are bpftrace lines   <R|W> <pid> <path>
\* and kind "other" is any line none of the three patterns matches.
TraceLine(kind, path, flags, ret, pid) ==
    [kind |-> kind, path |-> path, flags |-> flags, ret |-> ret, pid |-> pid]

isRelevantPath(filePath) ==
    /\ StartsWith(filePath, workspaceRoot)
    /\ ~ \E dir \in CONFIG_ignoredDirs : Includes(filePath, <<"/">> \o dir \o <<"/">>)

\* The path a kept record is stored under; <<>> stands for "skipped".
Skipped == [keep |-> FALSE, rel |-> <<>>]

\* Lines 604-607 of parseStraceOutput, 488-491 of parseFsUsageOutput.
RelevantRelativePath(filePath) ==
    IF ~isRelevantPath(filePath) THEN Skipped
    ELSE LET relativePath == PathRelative(workspaceRoot, workspaceRoot, filePath)
         IN  IF Len(relativePath) = 0 \/ StartsWith(relativePath, DotDot)
             THEN Skipped
             ELSE [keep |-> TRUE, rel |-> relativePath]

\* The openat regular expression: a quoted non-empty path and a result that
\* is a number (a failed call prints -1 and an errno name).
StraceLineMatches(line) ==
    line.kind = "openat" /\ Len(line.path) > 0 /\ line.ret >= 0

\* flags.includes(name): the flags are the text between the path and ")".
FlagsInclude(flags, name) == Includes(flags, <<name>>)

\* StraceWriteFlags without the O_CREAT test: a record that only creates is
\* no longer a write.
StraceWriteFlagsNoCreat(flags) ==
    \/ FlagsInclude(flags, "O_WRONLY")
    \/ FlagsInclude(flags, "O_RDWR")
    \/ FlagsInclude(flags, "O_TRUNC")

StraceWriteFlags(flags) ==
    \/ FlagsInclude(flags, "O_WRONLY")
    \/ FlagsInclude(flags, "O_RDWR")
    \/ FlagsInclude(flags, "O_CREAT")
    \/ FlagsInclude(flags, "O_TRUNC")

StraceReadFlags(flags) ==
    \/ FlagsInclude(flags, "O_RDONLY")
    \/ FlagsInclude(flags, "O_RDWR")
    \/ ~FlagsInclude(flags, "O_WRONLY")

RECURSIVE ParseStraceLines(_, _)
ParseStraceLines(lines, acc) ==
    IF Len(lines) = 0 THEN acc
    ELSE LET line == Head(lines)
             r == RelevantRelativePath(line.path)
         IN  IF ~StraceLineMatches(line) \/ ~r.keep
             THEN ParseStraceLines(Tail(lines), acc)
             ELSE ParseStraceLines(Tail(lines),
                    [reads  |-> IF StraceReadFlags(line.flags)
                                THEN acc.reads \cup {r.rel} ELSE acc.reads,
                     writes |-> IF StraceWriteFlags(line.flags)
                                THEN acc.writes \cup {r.rel} ELSE acc.writes])

\* The result's arrays are the two sets sorted: a set stands for each.
parseStraceOutput(straceOutput) ==
    ParseStraceLines(straceOutput, [reads |-> {}, writes |-> {}])

\* The fs_usage regular expression: an open record with a parenthesised
\* flag field and a path that starts with "/".
FsUsageLineMatches(line) ==
    line.kind = "open" /\ Len(line.flags) > 0 /\ IsAbsolute(line.path)

\* flags[i] of JavaScript (from 0), undefined past the end.
CharAt(s, i) == IF i + 1 <= Len(s) THEN s[i + 1] ELSE "undefined"

FsUsageReadFlags(flags) == CharAt(flags, 0) = "R"

\* FsUsageWriteFlags reading the truncate flag at index 3 instead of 4.
FsUsageWriteFlagsShifted(flags) ==
    CharAt(flags, 1) = "W" \/ CharAt(flags, 2) = "C" \/ CharAt(flags, 3) = "T"

FsUsageWriteFlags(flags) ==
    CharAt(flags, 1) = "W" \/ CharAt(flags, 2) = "C" \/ CharAt(flags, 4) = "T"

RECURSIVE ParseFsUsageLines(_, _)
ParseFsUsageLines(lines, acc) ==
    IF Len(lines) = 0 THEN acc
    ELSE LET line == Head(lines)
             r == RelevantRelativePath(line.path)
         IN  IF ~FsUsageLineMatches(line) \/ ~r.keep
             THEN ParseFsUsageLines(Tail(lines), acc)
             ELSE ParseFsUsageLines(Tail(lines),
                    [reads  |-> IF FsUsageReadFlags(line.flags)
                                THEN acc.reads \cup {r.rel} ELSE acc.reads,
                     writes |-> IF FsUsageWriteFlags(line.flags)
                                THEN acc.writes \cup {r.rel} ELSE acc.writes])

parseFsUsageOutput(fsUsageOutput) ==
    ParseFsUsageLines(fsUsageOutput, [reads |-> {}, writes |-> {}])

\* IoTracer.processOutput on one line: the pid filter, the workspace filter
\* and the ignore filter, then relative() with no check of its result.
BpfLineRecorded(line, tracked) ==
    /\ line.kind \in {"R", "W"}
    /\ Len(line.path) > 0
    /\ line.pid \in tracked
    /\ StartsWith(line.path, workspaceRoot)
    /\ ~ \E dir \in BpfIgnoredDirs : Includes(line.path, <<"/">> \o dir \o <<"/">>)

\* processOutput without the test of the pid.
processOutputEveryPid(line, tracked, acc) ==
    IF ~BpfLineRecorded(line, tracked \cup {line.pid}) THEN acc
    ELSE LET relativePath == PathRelative(workspaceRoot, workspaceRoot, line.path)
         IN  IF line.kind = "R"
             THEN [acc EXCEPT !.reads = @ \cup {relativePath}]
             ELSE [acc EXCEPT !.writes = @ \cup {relativePath}]

processOutput(line, tracked, acc) ==
    IF ~BpfLineRecorded(line, tracked) THEN acc
    ELSE LET relativePath == PathRelative(workspaceRoot, workspaceRoot, line.path)
         IN  IF line.kind = "R"
             THEN [acc EXCEPT !.reads = @ \cup {relativePath}]
             ELSE [acc EXCEPT !.writes = @ \cup {relativePath}]

-----------------------------------------------------------------------------
(* The traces the normalizers are run on. *)

\* The workspace roots tried: a plain one, and one below a directory whose
\* name is in CONFIG.ignoredDirs (a checkout under /tmp).
WorkspaceRoots == { <<"/", "ws">>, <<"/", "tmp", "/", "ws">> }

\* What follows the workspace root in a traced path.
SrcFile      == <<"/", "src", "/", "a", ".", "ts">>
OutFile      == <<"/", "dist", "/", "out", ".", "js">>
DepFile      == <<"/", "node_modules", "/", "x", ".", "js">>
IgnoredDir   == <<"/", "node_modules">>
RootItself   == <<>>
SiblingFile  == <<"-old", "/", "a", ".", "ts">>
EscapingFile == <<"/", ".", ".", "/", "etc", "/", "x">>
DotDotName   == <<"/", ".", ".", "data">>
ViaDotDot    == <<"/", "src", "/", ".", ".", "/", "b", ".", "ts">>

PathSuffixes ==
    { SrcFile, OutFile, DepFile, IgnoredDir, RootItself, SiblingFile,
      EscapingFile, DotDotName, ViaDotDot }

OutsidePath == <<"/", "etc", "/", "x">>

TracedPaths == {workspaceRoot \o s : s \in PathSuffixes} \cup {OutsidePath}

\* Flag lists of openat as strace prints them.
StraceFlagPool ==
    { <<"O_RDONLY", "|", "O_CLOEXEC">>,
      <<"O_WRONLY", "|", "O_CREAT", "|", "O_TRUNC", ",", "0666">>,
      <<"O_WRONLY", "|", "O_APPEND">>,
      <<"O_RDWR">>,
      <<"O_RDONLY", "|", "O_CREAT", ",", "0644">>,
      <<"O_RDONLY", "|", "O_DIRECTORY">> }

\* Flag fields of open as fs_usage prints them (12 characters).
FsFlags(a, b, c, d) == <<a, b, c, "_", d, "_", "_", "_", "_", "_", "_", "_">>

FsUsageFlagPool ==
    { FsFlags("R", "_", "_", "_"),
      FsFlags("_", "W", "_", "_"),
      FsFlags("R", "W", "_", "_"),
      FsFlags("_", "W", "C", "T"),
      FsFlags("R", "_", "C", "_"),
      FsFlags("_", "_", "_", "T"),
      FsFlags("_", "_", "_", "_") }

OtherLine == TraceLine("other", <<>>, <<>>, 0, 0)

\* The process ids bpftrace reports: the root pid 1, its child 2, the
\* child's child 3, and an unrelated process 9.
Pids == {1, 2, 3, 9}
ChildrenOf(pid) == IF pid = 1 THEN {2} ELSE IF pid = 2 THEN {3} ELSE {}

\* Every path with the plainest flags, every flag list on two plain files,
\* a failed call, and a line no pattern matches.
TraceLinesOf(b) ==
    IF b = "strace" THEN
        {TraceLine("openat", p, <<"O_RDONLY", "|", "O_CLOEXEC">>, 3, 0) : p \in TracedPaths}
        \cup {TraceLine("openat", workspaceRoot \o p, f, 3, 0) :
                 p \in {SrcFile, OutFile}, f \in StraceFlagPool}
        \cup {TraceLine("openat", workspaceRoot \o SrcFile, <<"O_WRONLY">>, -1, 0),
              OtherLine}
    ELSE IF b = "fs_usage" THEN
        {TraceLine("open", p, FsFlags("R", "_", "_", "_"), 3, 0) : p \in TracedPaths}
        \cup {TraceLine("open", workspaceRoot \o p, f, 3, 0) :
                 p \in {SrcFile, OutFile}, f \in FsUsageFlagPool}
        \cup {OtherLine}
    ELSE
        {TraceLine("R", p, <<>>, 0, 1) : p \in TracedPaths}
        \cup {TraceLine(k, workspaceRoot \o p, <<>>, 0, pid) :
                 k \in {"R", "W"}, p \in {SrcFile, OutFile}, pid \in Pids}
        \cup {OtherLine}

-----------------------------------------------------------------------------
(* The normalizers as a state machine: the tracer emits records while the  *)
(* task runs; strace and fs_usage write them to a file that is parsed once *)
(* the task has ended, the bpftrace tracer filters each as it arrives.     *)

NormInit ==
    /\ backend \in {"strace", "fs_usage", "bpftrace"}
    /\ workspaceRoot \in WorkspaceRoots
    /\ rawTrace = <<>>
    /\ normPc = "tracing"
    /\ reads = {}
    /\ writes = {}
    /\ trackedPids = IF backend = "bpftrace" THEN {1} ELSE {}
    /\ MainIdle
    /\ SideIdle

\* strace or fs_usage appends a record to its output file.
TraceEvent ==
    /\ normPc = "tracing"
    /\ backend \in {"strace", "fs_usage"}
    /\ Len(rawTrace) < MaxLines
    /\ \E line \in TraceLinesOf(backend) : rawTrace' = Append(rawTrace, line)
    /\ UNCHANGED <<sideVars, backend, workspaceRoot, normPc, reads, writes, trackedPids, mainVars>>

\* traceLinux: the output file is read and parsed.
ParseStrace ==
    /\ normPc = "tracing"
    /\ backend = "strace"
    /\ LET r == parseStraceOutput(rawTrace)
       IN  reads' = r.reads /\ writes' = r.writes
    /\ normPc' = "parsed"
    /\ UNCHANGED <<sideVars, backend, workspaceRoot, rawTrace, trackedPids, mainVars>>

\* traceMacOS: the output file is read and parsed.
ParseFsUsage ==
    /\ normPc = "tracing"
    /\ backend = "fs_usage"
    /\ LET r == parseFsUsageOutput(rawTrace)
       IN  reads' = r.reads /\ writes' = r.writes
    /\ normPc' = "parsed"
    /\ UNCHANGED <<sideVars, backend, workspaceRoot, rawTrace, trackedPids, mainVars>>

\* bpftrace prints a line and the stdout handler runs processOutput on it.
BpfOutput ==
    /\ normPc = "tracing"
    /\ backend = "bpftrace"
    /\ Len(rawTrace) < MaxLines
    /\ \E line \in TraceLinesOf(backend) :
          /\ rawTrace' = Append(rawTrace, line)
          /\ LET r == processOutput(line, trackedPids, [reads |-> reads, writes |-> writes])
             IN  reads' = r.reads /\ writes' = r.writes
    /\ UNCHANGED <<sideVars, backend, workspaceRoot, normPc, trackedPids, mainVars>>

\* updateTrackedPids: the children pgrep reports for the tracked pids (any
\* of them may not have been spawned yet) are added.
updateTrackedPids ==
    /\ normPc = "tracing"
    /\ backend = "bpftrace"
    /\ \E newPids \in SUBSET (UNION {ChildrenOf(pid) : pid \in trackedPids} \ trackedPids) :
          /\ newPids # {}
          /\ trackedPids' = trackedPids \cup newPids
    /\ UNCHANGED <<sideVars, backend, workspaceRoot, rawTrace, normPc, reads, writes, mainVars>>

\* IoTracer.stop: the result is what has been recorded.
BpfStop ==
    /\ normPc = "tracing"
    /\ backend = "bpftrace"
    /\ normPc' = "parsed"
    /\ UNCHANGED <<sideVars, backend, workspaceRoot, rawTrace, reads, writes, trackedPids, mainVars>>

NormNext ==
    \/ TraceEvent
    \/ ParseStrace
    \/ ParseFsUsage
    \/ BpfOutput
    \/ updateTrackedPids
    \/ BpfStop

SpecNorm == NormInit /\ [][NormNext]_vars

-----------------------------------------------------------------------------
(* Properties of the event normalizer. *)

RootSegs == ResolveSegs(workspaceRoot, workspaceRoot)

\* A location (the segments of an absolute path with "." and ".." resolved)
\* is strictly inside the workspace root.
StrictlyInsideRoot(segs) ==
    Len(segs) > Len(RootSegs) /\ SubSeq(segs, 1, Len(RootSegs)) = RootSegs

\* The location a path of a result denotes: the path taken from the root.
LocationOf(rel) == ResolveSegs(workspaceRoot, workspaceRoot \o <<"/">> \o rel)

HasIgnoredSegment(rel) ==
    \E i \in 1..Len(SplitOn(rel, "/")) : SplitOn(rel, "/")[i] \in IgnoredDirsOf(backend)

\* The segments of a traced path below the workspace root.
BelowRoot(path) ==
    LET t == ResolveSegs(workspaceRoot, path)
    IN  SubSeq(t, Len(RootSegs) + 1, Len(t))

\* A traced file is in the workspace, under no ignored directory of it.
WorkspaceFile(path) ==
    /\ IsAbsolute(path)
    /\ StrictlyInsideRoot(ResolveSegs(workspaceRoot, path))
    /\ \A i \in 1..(Len(BelowRoot(path)) - 1) : BelowRoot(path)[i] \notin IgnoredDirsOf(backend)

\* A record of a successful open that the backend's flags send to a set.
SuccessfulOpen(line) ==
    IF backend = "strace" THEN StraceLineMatches(line)
    ELSE IF backend = "fs_usage"
    THEN FsUsageLineMatches(line)
         /\ (FsUsageReadFlags(line.flags) \/ FsUsageWriteFlags(line.flags))
    ELSE line.kind \in {"R", "W"} /\ line.pid = 1

\* C7: after normalizing any trace with any backend, every path in reads and
\* in writes denotes a location strictly inside the workspace root and has
\* no ignored directory among its segments.
C7_PathsInsideWorkspace ==
    \A p \in reads \cup writes :
        StrictlyInsideRoot(LocationOf(p)) /\ ~HasIgnoredSegment(p)

\* C8: every successfully opened file that is inside the workspace and under
\* no ignored directory below the root is kept, whatever the directories
\* above the root are called and whatever the file's own name.
C8_WorkspaceFilesKept ==
    normPc = "parsed" =>
        \A i \in 1..Len(rawTrace) :
            (SuccessfulOpen(rawTrace[i]) /\ WorkspaceFile(rawTrace[i].path))
                => JoinWith(BelowRoot(rawTrace[i].path), "/") \in reads \cup writes

\* The flag tokens of an openat record.
FlagTokens(flags) == {flags[i] : i \in 1..Len(flags)} \ {"|", ","}

\* The records of a strace trace the path filter keeps, as indices.
KeptStrace == {i \in 1..Len(rawTrace) :
                  StraceLineMatches(rawTrace[i]) /\ RelevantRelativePath(rawTrace[i].path).keep}

KeptFsUsage == {i \in 1..Len(rawTrace) :
                  FsUsageLineMatches(rawTrace[i]) /\ RelevantRelativePath(rawTrace[i].path).keep}

RelOf(i) == RelevantRelativePath(rawTrace[i].path).rel

\* C9: strace backend: a path is in writes exactly when a successful openat
\* record of it (one the path filter keeps) has O_WRONLY, O_RDWR, O_CREAT or
\* O_TRUNC among its flag tokens, and in reads exactly when such a record has
\* O_RDONLY or O_RDWR or lacks O_WRONLY.
C9_StraceClassifiesByFlags ==
    (backend = "strace" /\ normPc = "parsed") =>
        \A p \in reads \cup writes \cup {RelOf(i) : i \in KeptStrace} :
            /\ p \in writes <=>
                 \E i \in KeptStrace :
                    /\ RelOf(i) = p
                    /\ FlagTokens(rawTrace[i].flags)
                          \cap {"O_WRONLY", "O_RDWR", "O_CREAT", "O_TRUNC"} # {}
            /\ p \in reads <=>
                 \E i \in KeptStrace :
                    /\ RelOf(i) = p
                    /\ \/ "O_RDONLY" \in FlagTokens(rawTrace[i].flags)
                       \/ "O_RDWR" \in FlagTokens(rawTrace[i].flags)
                       \/ "O_WRONLY" \notin FlagTokens(rawTrace[i].flags)

\* A parsed strace trace with a write-only path and a path both read and
\* written.
C9_Witness ==
    /\ backend = "strace"
    /\ normPc = "parsed"
    /\ writes \ reads # {}
    /\ writes \cap reads # {}

\* C10: fs_usage backend: a path is in writes exactly when an open record of
\* it has W at index 1, C at index 2 or T at index 4 of the flag field, and in
\* reads exactly when one has R at index 0.
C10_FsUsageClassifiesByFlags ==
    (backend = "fs_usage" /\ normPc = "parsed") =>
        \A p \in reads \cup writes \cup {RelOf(i) : i \in KeptFsUsage} :
            /\ p \in writes <=>
                 \E i \in KeptFsUsage :
                    /\ RelOf(i) = p
                    /\ \/ rawTrace[i].flags[2] = "W"
                       \/ rawTrace[i].flags[3] = "C"
                       \/ rawTrace[i].flags[5] = "T"
            /\ p \in reads <=>
                 \E i \in KeptFsUsage : RelOf(i) = p /\ rawTrace[i].flags[1] = "R"

\* One record alone has put its path in both sets.
C10_Witness ==
    /\ backend = "fs_usage"
    /\ normPc = "parsed"
    /\ Len(rawTrace) = 1
    /\ reads \cap writes # {}

-----------------------------------------------------------------------------
(* Named inputs and glob patterns (resolveNamedInput .. matchesPatterns).  *)

\* An input of a target that is not a string: {runtime: ..}, {env: ..},
\* {externalDependencies: ..}.  Every other input is a string.
ObjectInputs == { <<"{runtime}">>, <<"{env}">>, <<"{externalDependencies}">> }

IsStringInput(input) == input \notin ObjectInputs

\* resolveNamedInput(input, visited).  The visited set is one object that
\* the sibling branches of flatMap share, so the result carries it along.
RECURSIVE resolveNamedInput(_, _, _)
RECURSIVE ResolveEach(_, _, _)
resolveNamedInput(namedInputs, input, visited) ==
    IF input \in visited THEN [out |-> <<>>, visited |-> visited]
    ELSE IF IsStringInput(input) /\ input \in DOMAIN namedInputs
    THEN ResolveEach(namedInputs, namedInputs[input], visited \cup {input})
    ELSE IF /\ IsStringInput(input)
            /\ StartsWith(input, <<"^">>)
            /\ Tail(input) \in DOMAIN namedInputs
    THEN ResolveEach(namedInputs, namedInputs[Tail(input)], visited \cup {input})
    ELSE IF IsStringInput(input)
    THEN [out |-> <<input>>, visited |-> visited]
    ELSE [out |-> <<>>, visited |-> visited]

\* patterns.flatMap(p => resolveNamedInput(p, visited))
ResolveEach(namedInputs, patterns, visited) ==
    IF Len(patterns) = 0 THEN [out |-> <<>>, visited |-> visited]
    ELSE LET first == resolveNamedInput(namedInputs, Head(patterns), visited)
             rest == ResolveEach(namedInputs, Tail(patterns), first.visited)
         IN  [out |-> first.out \o rest.out, visited |-> rest.visited]

\* expandInputs(inputs): every input is resolved with a fresh visited set.
RECURSIVE expandInputs(_, _)
expandInputs(namedInputs, inputs) ==
    IF Len(inputs) = 0 THEN [patterns |-> <<>>, negations |-> <<>>]
    ELSE LET resolved == resolveNamedInput(namedInputs, Head(inputs), {}).out
             rest == expandInputs(namedInputs, Tail(inputs))
             IsNegation(p) == StartsWith(p, <<"!">>)
         IN  [patterns |-> SelectSeq(resolved, LAMBDA p : ~IsNegation(p)) \o rest.patterns,
              negations |-> [i \in 1..Len(SelectSeq(resolved, IsNegation)) |->
                                Tail(SelectSeq(resolved, IsNegation)[i])] \o rest.negations]

\* String.prototype.replace with a global pattern: every occurrence of
\* what, found from left to right without overlap, is replaced.
RECURSIVE ReplaceSeq(_, _, _)
ReplaceSeq(s, what, by) ==
    IF Len(s) < Len(what) THEN s
    ELSE IF SubSeq(s, 1, Len(what)) = what
    THEN by \o ReplaceSeq(SubSeq(s, Len(what) + 1, Len(s)), what, by)
    ELSE <<Head(s)>> \o ReplaceSeq(Tail(s), what, by)

expandNxPath(pattern, projectRoot) ==
    ReplaceSeq(ReplaceSeq(pattern, <<"{projectRoot}">>, projectRoot),
               <<"{workspaceRoot}">>, workspaceRoot)

\* The elements of a compiled regular expression.  Any other element is a
\* literal character: globToRegex escapes every character that is special
\* in a regular expression except the ones it rewrites.
ANYPATH    == "(?:.*/)?[^/]+"
GLOBSTAR   == ".*"
SINGLECHAR == "."
SEGMENT    == "[^/]*"

\* globToRegex with ** replaced before **/*, so that no **/* is left to
\* replace.
globToRegexGlobstarFirst(pattern) ==
    LET q == ReplaceSeq(pattern, <<"?">>, <<"<<<SINGLECHAR>>>">>)
        g == ReplaceSeq(q, <<"*", "*">>, <<"<<<GLOBSTAR>>>">>)
        e == ReplaceSeq(g, <<".">>, <<"\\.">>)
        s == ReplaceSeq(e, <<"*">>, <<SEGMENT>>)
        r2 == ReplaceSeq(s, <<"<<<GLOBSTAR>>>">>, <<GLOBSTAR>>)
    IN  ReplaceSeq(r2, <<"<<<SINGLECHAR>>>">>, <<SINGLECHAR>>)

\* globToRegex(pattern), without the anchors ^ and $ that RegexTest implies.
\* The regex element of a "." that is a literal dot is "\\.".
globToRegex(pattern) ==
    LET q == ReplaceSeq(pattern, <<"?">>, <<"<<<SINGLECHAR>>>">>)
        a == ReplaceSeq(q, <<"*", "*", "/", "*">>, <<"<<<ANYPATH>>>">>)
        g == ReplaceSeq(a, <<"*", "*">>, <<"<<<GLOBSTAR>>>">>)
        e == ReplaceSeq(g, <<".">>, <<"\\.">>)
        s == ReplaceSeq(e, <<"*">>, <<SEGMENT>>)
        r1 == ReplaceSeq(s, <<"<<<ANYPATH>>>">>, <<ANYPATH>>)
        r2 == ReplaceSeq(r1, <<"<<<GLOBSTAR>>>">>, <<GLOBSTAR>>)
    IN  ReplaceSeq(r2, <<"<<<SINGLECHAR>>>">>, <<SINGLECHAR>>)

\* regex.test(s) for an anchored regular expression.
RECURSIVE RegexTest(_, _)
RegexTest(regex, s) ==
    IF Len(regex) = 0 THEN Len(s) = 0
    ELSE LET e == Head(regex)
             rest == Tail(regex)
             From(k) == SubSeq(s, k + 1, Len(s))
             NoSlash(i, j) == \A n \in i..j : s[n] # "/"
         IN  IF e = SINGLECHAR THEN Len(s) > 0 /\ RegexTest(rest, Tail(s))
             ELSE IF e = SEGMENT
             THEN \E k \in 0..Len(s) : NoSlash(1, k) /\ RegexTest(rest, From(k))
             ELSE IF e = GLOBSTAR
             THEN \E k \in 0..Len(s) : RegexTest(rest, From(k))
             ELSE IF e = ANYPATH
             THEN \E k \in 1..Len(s) :
                     /\ \E m \in 0..(k - 1) :
                           (m = 0 \/ s[m] = "/") /\ NoSlash(m + 1, k)
                     /\ RegexTest(rest, From(k))
             ELSE IF e = "\\."
             THEN Len(s) > 0 /\ Head(s) = "." /\ RegexTest(rest, Tail(s))
             ELSE Len(s) > 0 /\ Head(s) = e /\ RegexTest(rest, Tail(s))

\* filePath.startsWith('/') ? filePath : join(CONFIG.workspaceRoot, filePath)
AbsoluteOf(filePath) ==
    IF IsAbsolute(filePath) THEN filePath ELSE PathJoin(workspaceRoot, filePath)

\* Lines 428-435: a glob is compiled and tested, any other pattern matches
\* the path itself and everything below it.
MatchesAbsolutePattern(absolutePath, absolutePattern) ==
    IF Includes(absolutePattern, <<"*">>) \/ Includes(absolutePattern, <<"?">>)
    THEN RegexTest(globToRegex(absolutePattern), absolutePath)
    ELSE \/ absolutePath = absolutePattern
         \/ StartsWith(absolutePath, absolutePattern \o <<"/">>)

matchesSinglePattern(absolutePath, pattern, projectRoot) ==
    MatchesAbsolutePattern(absolutePath, AbsoluteOf(expandNxPath(pattern, projectRoot)))

\* Lines 449-467: some positive pattern matches and no negation does.
MatchesExpanded(absolutePath, patterns, negations, projectRoot) ==
    /\ \E i \in 1..Len(patterns) :
          matchesSinglePattern(absolutePath, patterns[i], projectRoot)
    /\ ~ \E i \in 1..Len(negations) :
            matchesSinglePattern(absolutePath, negations[i], projectRoot)

matchesPatterns(namedInputs, filePath, inputs, projectRoot) ==
    MatchesExpanded(AbsoluteOf(filePath),
                    expandInputs(namedInputs, inputs).patterns,
                    expandInputs(namedInputs, inputs).negations, projectRoot)
-----------------------------------------------------------------------------
(* Nx infrastructure files (CONFIG.nxInfraFiles, CONFIG.nxInfraPatterns).  *)

nxInfraFiles ==
    { <<"nx", ".", "json">>, <<"package", ".", "json">>,
      <<"pnpm-lock", ".", "yaml">>, <<"package-lock", ".", "json">>,
      <<"yarn", ".", "lock">>, <<"tsconfig", ".", "base", ".", "json">>,
      <<"tsconfig", ".", "json">>, <<".", "gitignore">>, <<".", "nxignore">>,
      <<".", "claude">> }

\* The extensions of (ts|js|cts|mts|cjs|mjs) and of (ts|js|mjs|cjs).
ConfigExtensions == {"ts", "js", "cts", "mts", "cjs", "mjs"}
BundlerExtensions == {"ts", "js", "mjs", "cjs"}

\* A pattern that ends with $ and has no ^: anything, then the characters.
EndsWithRegex(chars) == <<GLOBSTAR>> \o chars

\* A pattern that has neither ^ nor $.
ContainsRegex(chars) == <<GLOBSTAR>> \o chars \o <<GLOBSTAR>>

\* CONFIG.nxInfraPatterns, each alternation written out.
nxInfraPatterns ==
    { EndsWithRegex(<<"/", "project", "\\.", "json">>),
      EndsWithRegex(<<"/", "package", "\\.", "json">>),
      <<"project", "\\.", "json">>,
      <<"\\.", "nx", GLOBSTAR>>,
      EndsWithRegex(<<"tsconfig", "\\.", GLOBSTAR, "\\.", "json">>),
      EndsWithRegex(<<"tsconfig", "\\.", "json">>),
      ContainsRegex(<<"\\.", "eslintrc">>),
      EndsWithRegex(<<"pnpm-workspace", "\\.", "yaml">>),
      EndsWithRegex(<<"rust-toolchain", "\\.", "toml">>),
      EndsWithRegex(<<"\\.", "swcrc">>),
      EndsWithRegex(<<"executors", "\\.", "json">>),
      EndsWithRegex(<<"generators", "\\.", "json">>),
      EndsWithRegex(<<"migrations", "\\.", "json">>),
      EndsWithRegex(<<"schema", "\\.", "json">>),
      EndsWithRegex(<<"\\.", "gitignore">>),
      EndsWithRegex(<<"\\.", "gitattributes">>),
      ContainsRegex(<<"\\.", "env">>),
      EndsWithRegex(<<"\\.", "local", "\\.", "env">>),
      ContainsRegex(<<"\\.", "husky", "/">>),
      EndsWithRegex(<<"\\.", "npmignore">>),
      EndsWithRegex(<<"LICENSE">>) }
    \cup {EndsWithRegex(<<"jest", "\\.", "config", "\\.", x>>) : x \in ConfigExtensions}
    \cup {EndsWithRegex(<<"eslint", "\\.", "config", "\\.", x>>) : x \in ConfigExtensions}
    \cup {EndsWithRegex(<<"rspack", "\\.", "config", "\\.", x>>) : x \in BundlerExtensions}
    \cup {EndsWithRegex(<<"webpack", "\\.", "config", "\\.", x>>) : x \in BundlerExtensions}

isNxInfrastructure(filePath) ==
    \/ filePath \in nxInfraFiles
    \/ \E pattern \in nxInfraPatterns : RegexTest(pattern, filePath)

-----------------------------------------------------------------------------
(* The Nx workspace: what `nx show project`, nx.json, the project graph,   *)
(* HashPlanInspector and the file system answer.                           *)

\* An entry of dependsOn: a string, or an object {target, projects}
\* (projects <<>> when the key is absent).
StringDep(str) ==
    [type |-> "string", str |-> str, target |-> <<>>, projects |-> <<>>]
ObjectDep(tgt, prjs) ==
    [type |-> "object", str |-> <<>>, target |-> tgt, projects |-> prjs]

\* A target of a project, as `nx show project --json` prints it.
Target(inputs, outputs, dependsOn) ==
    [inputs |-> inputs, outputs |-> outputs, dependsOn |-> dependsOn]

\* getNxProjectConfig(project, target); ok is FALSE when it throws (the
\* project is unknown, or it has no such target).
getNxProjectConfig(projects, proj, tgt) ==
    IF proj \in DOMAIN projects /\ tgt \in DOMAIN projects[proj].targets
    THEN LET targetConfig == projects[proj].targets[tgt]
         IN  [ok |-> TRUE, project |-> proj, root |-> projects[proj].root,
              target |-> targetConfig, inputs |-> targetConfig.inputs,
              outputs |-> targetConfig.outputs]
    ELSE [ok |-> FALSE, project |-> proj, root |-> <<>>,
          target |-> Target(<<>>, <<>>, <<>>), inputs |-> <<>>, outputs |-> <<>>]

\* The target a dependsOn entry of proj makes collectConfigs visit; <<>>
\* when the entry is skipped (lines 305-327).
DepTarget(proj, dep) ==
    IF dep.type = "string"
    THEN IF StartsWith(dep.str, <<"^">>) THEN <<>>
         ELSE IF Includes(dep.str, <<":">>)
         THEN LET parts == SplitOn(dep.str, ":")
                  p == parts[1]
                  t == parts[2]
              IN  IF p # proj /\ p # <<"self">> THEN <<>> ELSE t
         ELSE dep.str
    ELSE IF dep.target # <<>>
    THEN IF dep.projects # <<>> /\ dep.projects # <<"self">> THEN <<>>
         ELSE dep.target
    ELSE <<>>

\* collectConfigs(proj, tgt) on the state st = [configs, visited]; a throw
\* of getNxProjectConfig is caught and the target is skipped.
RECURSIVE collectConfigs(_, _, _, _)
RECURSIVE CollectDependsOn(_, _, _, _)
RECURSIVE CollectDependsOnUntilThrow(_, _, _, _)
collectConfigs(projects, proj, tgt, st) ==
    LET key == <<proj, tgt>>
    IN  IF key \in st.visited THEN st
        ELSE LET visited == st.visited \cup {key}
                 config == getNxProjectConfig(projects, proj, tgt)
             IN  IF ~config.ok THEN [st EXCEPT !.visited = visited]
                 ELSE CollectDependsOn(projects, proj, config.target.dependsOn,
                          [configs |-> Append(st.configs, config), visited |-> visited])

\* CollectDependsOn with the try around the loop only: a dependency whose
\* configuration cannot be fetched ends the loop.
CollectDependsOnUntilThrow(projects, proj, dependsOn, st) ==
    IF Len(dependsOn) = 0 THEN st
    ELSE LET depTarget == DepTarget(proj, Head(dependsOn))
         IN  IF /\ depTarget # <<>>
                /\ <<proj, depTarget>> \notin st.visited
                /\ ~getNxProjectConfig(projects, proj, depTarget).ok
             THEN [st EXCEPT !.visited = @ \cup {<<proj, depTarget>>}]
             ELSE CollectDependsOnUntilThrow(projects, proj, Tail(dependsOn),
                      IF depTarget # <<>>
                      THEN collectConfigs(projects, proj, depTarget, st)
                      ELSE st)

CollectDependsOn(projects, proj, dependsOn, st) ==
    IF Len(dependsOn) = 0 THEN st
    ELSE LET depTarget == DepTarget(proj, Head(dependsOn))
         IN  CollectDependsOn(projects, proj, Tail(dependsOn),
                 IF depTarget # <<>>
                 THEN collectConfigs(projects, proj, depTarget, st)
                 ELSE st)

\* getTaskConfig with the config of a task pushed after the configs of
\* the tasks it depends on.
getTaskConfigDependenciesFirst(projects, proj, tgt) ==
    LET configs == collectConfigs(projects, proj, tgt, [configs |-> <<>>, visited |-> {}]).configs
    IN  [i \in 1..Len(configs) |-> configs[Len(configs) + 1 - i]]

getTaskConfig(projects, proj, tgt) ==
    collectConfigs(projects, proj, tgt, [configs |-> <<>>, visited |-> {}]).configs
-----------------------------------------------------------------------------
(* The workspaces the tracer is run in.                                    *)

ProcessorRoot == <<"libs", "/", "data-processor">>
FetcherRoot   == <<"libs", "/", "data-fetcher">>
AppRoot       == <<"apps", "/", "app">>
E2eRoot       == <<"apps", "/", "app", "/", "e2e">>

In(root, rel) == root \o <<"/">> \o rel
InProjectRoot(rel) == In(<<"{projectRoot}">>, rel)

InputTxt      == <<"data", "/", "input", ".", "txt">>
UndeclaredTxt == <<"undeclared-input", ".", "txt">>
OutputTxt     == <<"dist", "/", "output", ".", "txt">>
ExtraTxt      == <<"dist", "/", "extra", ".", "txt">>
SourceTxt     == <<"data", "/", "source", ".", "txt">>
FetchedTxt    == <<"dist", "/", "fetched", ".", "txt">>
ProjectJson   == <<"project", ".", "json">>
MainTs        == <<"src", "/", "main", ".", "ts">>
MainSpecTs    == <<"src", "/", "main", ".", "spec", ".", "ts">>
E2eSpecTs     == <<"a", ".", "spec", ".", "ts">>
GenOut        == <<"gen", "/", "out", ".", "txt">>
DistMainJs    == <<"dist", "/", "apps", "/", "app", "/", "main", ".", "js">>
DistPackageJson == <<"dist", "/", "apps", "/", "app", "/", "package", ".", "json">>
JestConfigTs  == <<"jest", ".", "config", ".", "ts">>
DotEnv        == <<".", "env">>

NoNamedInputs == [name \in {} |-> <<>>]

\* The ways data-processor:process-data can name its dependency on
\* data-fetcher:process-data in dependsOn.
FetcherDeps ==
    { StringDep(<<"^", "process-data">>),
      StringDep(<<"data-fetcher", ":", "process-data">>),
      ObjectDep(<<"process-data">>, <<"data-fetcher">>) }

\* The test projects of the repository: data-processor depends on
\* data-fetcher, each declares one input and one output.
ReadmeWorkspace(dep) ==
    [ projects |->
          (<<"data-processor">> :>
               [root |-> ProcessorRoot,
                targets |-> (<<"process-data">> :>
                    Target(<<InProjectRoot(InputTxt)>>,
                           <<InProjectRoot(OutputTxt)>>, <<dep>>))])
          @@
          (<<"data-fetcher">> :>
               [root |-> FetcherRoot,
                targets |-> (<<"process-data">> :>
                    Target(<<InProjectRoot(SourceTxt)>>,
                           <<InProjectRoot(FetchedTxt)>>, <<>>))]),
      namedInputs |-> NoNamedInputs,
      roots |-> <<ProcessorRoot, FetcherRoot>>,
      dependencies |-> (<<"data-processor">> :> {<<"data-fetcher">>})
                       @@ (<<"data-fetcher">> :> {}),
      directories |-> {FetcherRoot},
      hashPlans |-> { {In(ProcessorRoot, InputTxt)},
                      {In(ProcessorRoot, InputTxt), In(FetcherRoot, FetchedTxt)} },
      requests |-> { <<"data-processor", ":", "process-data">>,
                     <<"data-processor", ":", "no-such-target">> },
      readPool |-> { In(ProcessorRoot, InputTxt), In(ProcessorRoot, UndeclaredTxt),
                     In(FetcherRoot, FetchedTxt), FetcherRoot,
                     In(ProcessorRoot, ProjectJson) },
      writePool |-> { In(ProcessorRoot, OutputTxt), In(ProcessorRoot, ExtraTxt) } ]

\* A workspace with a project nested in another one, named inputs with a
\* negation, and dependsOn entries of every form.
NestedWorkspace ==
    [ projects |->
          (<<"app">> :>
               [root |-> AppRoot,
                targets |->
                    (<<"build">> :>
                         Target(<< <<"production">>, <<"^", "production">>,
                                   <<"{externalDependencies}">> >>,
                                << <<"{workspaceRoot}", "/", "dist", "/", "{projectRoot}">> >>,
                                << StringDep(<<"prebuild">>),
                                   StringDep(<<"^", "build">>),
                                   StringDep(<<"app", ":", "build">>),
                                   ObjectDep(<<"codegen">>, <<>>),
                                   ObjectDep(<<"build">>, <<"dependencies">>) >>))
                    @@
                    (<<"prebuild">> :>
                         Target(<<>>, << InProjectRoot(<<"gen">>) >>,
                                << StringDep(<<"build">>) >>))])
          @@
          (<<"app-e2e">> :>
               [root |-> E2eRoot,
                targets |-> (<<"e2e">> :> Target(<< <<"default">> >>, <<>>, <<>>))]),
      namedInputs |->
          (<<"default">> :> << InProjectRoot(<<"*", "*", "/", "*">>) >>)
          @@
          (<<"production">> :>
               << <<"default">>,
                  <<"!">> \o InProjectRoot(<<"*", "*", "/", "*", ".", "spec", ".", "ts">>) >>),
      roots |-> <<AppRoot, E2eRoot>>,
      dependencies |-> (<<"app">> :> {}) @@ (<<"app-e2e">> :> {<<"app">>}),
      directories |-> {In(AppRoot, <<"src">>)},
      hashPlans |-> { {In(AppRoot, MainTs)} },
      requests |-> { <<"app", ":", "build">> },
      readPool |-> { In(AppRoot, MainTs), In(AppRoot, MainSpecTs),
                     In(E2eRoot, E2eSpecTs), In(AppRoot, <<"src">>),
                     In(AppRoot, GenOut) },
      writePool |-> { DistMainJs, In(AppRoot, GenOut), In(AppRoot, MainTs) } ]

Workspaces == {ReadmeWorkspace(dep) : dep \in FetcherDeps} \cup {NestedWorkspace}

\* The nested workspace with a task that touches configuration files: the
\* project.json of its project (inside the declared inputs), the Jest
\* configuration of the nested project, a package.json generated into the
\* declared output directory and a .env file written beside the sources.
BookkeepingWorkspace ==
    [NestedWorkspace EXCEPT
        !.readPool = { In(AppRoot, MainTs), In(AppRoot, ProjectJson),
                       In(E2eRoot, JestConfigTs) },
        !.writePool = { DistMainJs, DistPackageJson, In(AppRoot, DotEnv) }]

\* A script kept in a workspace directory that belongs to no project.
ToolsGenJs == <<"tools", "/", "gen", ".", "js">>

\* The test projects with a task that also reads a script outside every
\* project and writes into the output directory of the other project; one
\* answer of HashPlanInspector lists a file of the project that no declared
\* pattern matches.
StrayWorkspace ==
    [ReadmeWorkspace(StringDep(<<"^", "process-data">>)) EXCEPT
        !.hashPlans = { {In(ProcessorRoot, InputTxt)},
                        {In(ProcessorRoot, InputTxt), In(ProcessorRoot, UndeclaredTxt)} },
        !.readPool = { In(ProcessorRoot, InputTxt), In(ProcessorRoot, UndeclaredTxt),
                       ToolsGenJs },
        !.writePool = { In(ProcessorRoot, OutputTxt), In(FetcherRoot, FetchedTxt) }]

\* A source file of the nested project.
PageTs == <<"support", "/", "page", ".", "ts">>

\* The nested workspace with a dependency task whose inputs overlap the
\* inputs of the task under test: prebuild declares the default inputs,
\* build the production inputs, and the root of app-e2e lies inside the
\* root of app; build lists a target that does not exist and itself before
\* prebuild.
OverlappingWorkspace ==
    [NestedWorkspace EXCEPT
        !.projects[<<"app">>].targets[<<"prebuild">>].inputs = << <<"default">> >>,
        !.projects[<<"app">>].targets[<<"build">>].dependsOn =
            << ObjectDep(<<"codegen">>, <<>>), StringDep(<<"build">>),
               StringDep(<<"prebuild">>) >>,
        !.hashPlans = { {In(AppRoot, MainTs)},
                        {In(AppRoot, MainTs), In(E2eRoot, PageTs)} },
        !.readPool = { In(AppRoot, MainTs), In(AppRoot, MainSpecTs), In(E2eRoot, PageTs) },
        !.writePool = { DistMainJs }]

\* The workspaces whose classification is explored.
ClassifiedWorkspaces ==
    Workspaces \cup {BookkeepingWorkspace, StrayWorkspace, OverlappingWorkspace}

\* process.argv.slice(2): no argument, one without a colon, or a request.
ArgvPool(w) == { <<>>, << <<"data-processor">> >> } \cup { <<r>> : r \in w.requests }

\* os.platform()
Platforms == {"darwin", "linux", "win32"}
-----------------------------------------------------------------------------
(* main(): the classification of the observed accesses.                    *)

\* isDirectory(filePath): what statSync answers in the workspace.
isDirectory(filePath) == filePath \in nx.directories

\* The project of the first config whose inputs match; <<>> for null.
findMatchingInputTask(filePath, configs) ==
    LET hits == {i \in 1..Len(configs) :
                    matchesPatterns(nx.namedInputs, filePath, configs[i].inputs, configs[i].root)}
    IN  IF hits = {} THEN <<>>
        ELSE configs[CHOOSE i \in hits : \A j \in hits : i <= j].project

findMatchingOutputTask(filePath, configs) ==
    LET hits == {i \in 1..Len(configs) :
                    matchesPatterns(nx.namedInputs, filePath, configs[i].outputs, configs[i].root)}
    IN  IF hits = {} THEN <<>>
        ELSE configs[CHOOSE i \in hits : \A j \in hits : i <= j].project

\* taskConfigs[0]?.root || ''
ProjectRootOf(configs) == IF Len(configs) > 0 THEN configs[1].root ELSE <<>>

\* The first root, in the order of the set, that is not the project's own
\* and holds the file; <<>> for null.
isInOtherProject(roots, projectRoot, filePath) ==
    LET hits == {i \in 1..Len(roots) :
                    /\ roots[i] # projectRoot
                    /\ (StartsWith(filePath, roots[i] \o <<"/">>) \/ filePath = roots[i])}
    IN  IF hits = {} THEN <<>>
        ELSE roots[CHOOSE i \in hits : \A j \in hits : i <= j]

isRelevantToProject(projectRoot, filePath) ==
    \/ StartsWith(filePath, projectRoot \o <<"/">>) \/ filePath = projectRoot
    \/ ~Includes(filePath, <<"/">>)

\* resolved is [known, files]; known is FALSE for null.
isInResolvedInputs(resolved, filePath) == resolved.known /\ filePath \in resolved.files

NoResolvedInputs == [known |-> FALSE, files |-> {}]

\* TaskAccesses with nothing filtered out.
TaskAccessesUnfiltered(accesses) == accesses

\* results.reads.filter(f => !isNxInfrastructure(f))
TaskAccesses(accesses) == {f \in accesses : ~isNxInfrastructure(f)}

\* UndeclaredReadsOf without the look into the resolved inputs.
UndeclaredReadsByPatternsOnly(taskReads, configs, resolved) ==
    {f \in taskReads :
        /\ ~isDirectory(f)
        /\ isRelevantToProject(ProjectRootOf(configs), f)
        /\ findMatchingInputTask(f, configs) = <<>>}

UndeclaredReadsOf(taskReads, configs, resolved) ==
    {f \in taskReads :
        /\ ~isDirectory(f)
        /\ isRelevantToProject(ProjectRootOf(configs), f)
        /\ ~isInResolvedInputs(resolved, f)
        /\ findMatchingInputTask(f, configs) = <<>>}

\* The writes compared against the declared inputs instead of the outputs.
UndeclaredWritesAgainstInputs(taskWrites, configs) ==
    {f \in taskWrites :
        /\ ~isDirectory(f)
        /\ isRelevantToProject(ProjectRootOf(configs), f)
        /\ findMatchingInputTask(f, configs) = <<>>}

UndeclaredWritesOf(taskWrites, configs) ==
    {f \in taskWrites :
        /\ ~isDirectory(f)
        /\ isRelevantToProject(ProjectRootOf(configs), f)
        /\ findMatchingOutputTask(f, configs) = <<>>}

CrossProjectReadsOf(taskReads, configs, resolved, roots) ==
    {f \in taskReads :
        /\ ~isDirectory(f)
        /\ isInOtherProject(roots, ProjectRootOf(configs), f) # <<>>
        /\ ~isInResolvedInputs(resolved, f)}

\* The files listed under FILES READ, each with its mark: declared is the
\* check mark, its absence the cross.
RelevantReadsOf(taskReads, configs, resolved) ==
    {[file |-> f,
      declared |-> \/ isInResolvedInputs(resolved, f)
                   \/ findMatchingInputTask(f, configs) # <<>>] :
        f \in {g \in taskReads :
                 isRelevantToProject(ProjectRootOf(configs), g) /\ ~isDirectory(g)}}

\* The files listed under FILES WRITTEN.
RelevantWritesOf(taskWrites, configs) ==
    {[file |-> f, declared |-> findMatchingOutputTask(f, configs) # <<>>] :
        f \in {g \in taskWrites :
                 isRelevantToProject(ProjectRootOf(configs), g) /\ ~isDirectory(g)}}

\* A string of the JSON output.
JsonString(s) == [type |-> "string", value |-> s]

\* An object of the JSON output.
JsonObject(fields) == [type |-> "object", value |-> fields]

\* The report with every cross-project read as an object {path, fromProject}.
JsonReportWithOwners(configs, tgt, ur, uw, cr, code) ==
    [ tasks |-> [i \in 1..Len(configs) |-> JsonString(configs[i].project \o <<":">> \o tgt)],
      undeclaredReads |-> {JsonString(f) : f \in ur},
      undeclaredWrites |-> {JsonString(f) : f \in uw},
      crossProjectReads |->
          {JsonObject([path |-> f,
                       fromProject |-> isInOtherProject(nx.roots, ProjectRootOf(configs), f)]) :
              f \in cr},
      exitCode |-> code ]

\* The object main() prints under "JSON OUTPUT:"; its arrays keep the
\* order of the sorted results and are given as sets.
JsonReport(configs, tgt, ur, uw, cr, code) ==
    [ tasks |-> [i \in 1..Len(configs) |-> JsonString(configs[i].project \o <<":">> \o tgt)],
      undeclaredReads |-> {JsonString(f) : f \in ur},
      undeclaredWrites |-> {JsonString(f) : f \in uw},
      crossProjectReads |-> {JsonString(f) : f \in cr},
      exitCode |-> code ]
-----------------------------------------------------------------------------
(* main() as a state machine.                                              *)

\* The workspace root of the runs of main().
RunRoot == <<"/", "ws">>

\* The files the traced task opens in the runs of main().
TracedFiles ==
    { In(ProcessorRoot, UndeclaredTxt), In(ProcessorRoot, OutputTxt),
      In(AppRoot, MainSpecTs), DistMainJs }

\* The lines the tracer of backend b writes while the task runs.
RunTraceLines(b) ==
    IF b = "strace" THEN
        {TraceLine("openat", In(workspaceRoot, f), <<"O_RDONLY", "|", "O_CLOEXEC">>, 3, 0) :
            f \in nx.readPool \cap TracedFiles}
        \cup {TraceLine("openat", In(workspaceRoot, f),
                        <<"O_WRONLY", "|", "O_CREAT", "|", "O_TRUNC", ",", "0666">>, 3, 0) :
                 f \in nx.writePool \cap TracedFiles}
    ELSE
        {TraceLine("open", In(workspaceRoot, f), FsFlags("R", "_", "_", "_"), 3, 0) :
            f \in nx.readPool \cap TracedFiles}
        \cup {TraceLine("open", In(workspaceRoot, f), FsFlags("_", "W", "C", "T"), 3, 0) :
                 f \in nx.writePool \cap TracedFiles}

\* The exit codes of the traced task.
ExitCodes == 0..MaxExitCode

MainStart ==
    /\ workspaceRoot = RunRoot
    /\ rawTrace = <<>>
    /\ normPc = "main"
    /\ reads = {}
    /\ writes = {}
    /\ trackedPids = {}
    /\ taskConfigs = <<>>
    /\ resolvedInputs = NoResolvedInputs
    /\ tracerProc = "none"
    /\ targetProc = "none"
    /\ taskExit = <<>>
    /\ readBack = "none"
    /\ outputStream = "none"
    /\ allProjectRoots = <<>>
    /\ undeclaredReads = {}
    /\ undeclaredWrites = {}
    /\ crossProjectReads = {}
    /\ relevantReads = {}
    /\ relevantWrites = {}
    /\ report = <<>>
    /\ procExit = <<>>
    /\ SideIdle

Init ==
    /\ MainStart
    /\ pc = "start"
    /\ nx \in Workspaces
    /\ argv \in ArgvPool(nx)
    /\ platform \in Platforms
    /\ isRoot \in BOOLEAN
    /\ backend = "none"
    /\ project = <<>>
    /\ target = <<>>

\* process.exit(code)
ProcessExit(code) == procExit' = <<code>> /\ pc' = "exited"

\* Lines 710-714: no argument, or one without a colon.
UsageError ==
    /\ pc = "start"
    /\ IF Len(argv) = 0 THEN TRUE ELSE ~Includes(argv[1], <<":">>)
    /\ ProcessExit(1)
    /\ UNCHANGED <<sideVars, normVars, envVars, taskVars, procVars, classVars>>

\* Line 716: const [project, target] = args[0].split(':')
ParseArgs ==
    /\ pc = "start"
    /\ Len(argv) > 0 /\ Includes(argv[1], <<":">>)
    /\ project' = SplitOn(argv[1], ":")[1]
    /\ target' = SplitOn(argv[1], ":")[2]
    /\ pc' = "platform"
    /\ UNCHANGED <<sideVars, normVars, envVars, taskConfigs, resolvedInputs, procVars, classVars, procExit>>

getPlatform ==
    IF platform = "darwin" THEN "macos"
    ELSE IF platform = "linux" THEN "linux"
    ELSE "unsupported"

\* Lines 729-732.
UnsupportedPlatform ==
    /\ pc = "platform"
    /\ getPlatform = "unsupported"
    /\ ProcessExit(1)
    /\ UNCHANGED <<sideVars, normVars, envVars, taskVars, procVars, classVars>>

\* Lines 718, 770-774: the platform selects the tracer.
DetectPlatform ==
    /\ pc = "platform"
    /\ getPlatform # "unsupported"
    /\ backend' = IF getPlatform = "macos" THEN "fs_usage" ELSE "strace"
    /\ pc' = "config"
    /\ UNCHANGED <<sideVars, workspaceRoot, rawTrace, normPc, reads, writes, trackedPids,
                   envVars, taskVars, procVars, classVars, procExit>>

\* Line 736.
GetTaskConfig ==
    /\ pc = "config"
    /\ taskConfigs' = getTaskConfig(nx.projects, project, target)
    /\ pc' = "resolve"
    /\ UNCHANGED <<sideVars, normVars, envVars, project, target, resolvedInputs, procVars,
                   classVars, procExit>>

\* Lines 756-763: HashPlanInspector answers with a set of files, or fails
\* (null); warmUpNxCache changes nothing the tracer keeps.
GetResolvedInputs ==
    /\ pc = "resolve"
    /\ \/ resolvedInputs' = NoResolvedInputs
       \/ \E files \in nx.hashPlans : resolvedInputs' = [known |-> TRUE, files |-> files]
    /\ pc' = "trace"
    /\ UNCHANGED <<sideVars, normVars, envVars, project, target, taskConfigs, procVars,
                   classVars, procExit>>

\* traceLinux, line 625: strace is spawned and runs the task.
SpawnStrace ==
    /\ pc = "trace" /\ backend = "strace"
    /\ tracerProc' = "running"
    /\ targetProc' = "running"
    /\ pc' = "strace_wait"
    /\ UNCHANGED <<sideVars, normVars, envVars, taskVars, taskExit, readBack, outputStream, classVars, procExit>>

\* Lines 641, 959-962: strace cannot be spawned; its 'error' event rejects
\* the promise main() awaits and the catch of main() exits with 1.
StraceSpawnError ==
    /\ pc = "trace" /\ backend = "strace"
    /\ tracerProc' = "failed"
    /\ ProcessExit(1)
    /\ UNCHANGED <<sideVars, normVars, envVars, taskVars, targetProc, taskExit, readBack, outputStream, classVars>>

\* The running tracer writes a line to its output file.
TracerWrites ==
    /\ \/ pc = "strace_wait"
       \/ pc \in {"mac_startup", "mac_target", "mac_drain"}
    /\ tracerProc = "running"
    /\ Len(rawTrace) < MaxLines
    /\ \E line \in RunTraceLines(backend) : rawTrace' = Append(rawTrace, line)
    /\ UNCHANGED <<sideVars, backend, workspaceRoot, normPc, reads, writes, trackedPids,
                   mainVars>>

\* Line 640: strace closes with the exit code of the task.
StraceClose ==
    /\ pc = "strace_wait"
    /\ \E code \in ExitCodes : taskExit' = <<code>>
    /\ tracerProc' = "exited"
    /\ targetProc' = "exited"
    /\ pc' = "strace_read"
    /\ UNCHANGED <<sideVars, normVars, envVars, taskVars, readBack, outputStream, classVars, procExit>>

\* Lines 644-652: the output file is read and parsed; when it cannot be
\* read the output is the empty string.
ReadStraceOutput ==
    /\ pc = "strace_read"
    /\ \E ok \in BOOLEAN :
          LET r == parseStraceOutput(IF ok THEN rawTrace ELSE <<>>)
          IN  /\ readBack' = IF ok THEN "read" ELSE "failed"
              /\ reads' = r.reads
              /\ writes' = r.writes
    /\ pc' = "traced"
    /\ UNCHANGED <<sideVars, backend, workspaceRoot, rawTrace, normPc, trackedPids,
                   envVars, taskVars, tracerProc, targetProc, taskExit, outputStream, classVars,
                   procExit>>

\* traceMacOS, lines 514-518.
SudoMissing ==
    /\ pc = "trace" /\ backend = "fs_usage"
    /\ ~isRoot
    /\ ProcessExit(1)
    /\ UNCHANGED <<sideVars, normVars, envVars, taskVars, procVars, classVars>>

\* Lines 521-533: fs_usage is spawned and piped to the output file.
SpawnFsUsage ==
    /\ pc = "trace" /\ backend = "fs_usage"
    /\ isRoot
    /\ outputStream' = "open"
    /\ tracerProc' = "running"
    /\ pc' = "mac_startup"
    /\ UNCHANGED <<sideVars, normVars, envVars, taskVars, targetProc, taskExit, readBack, classVars, procExit>>

\* Lines 533-541: after the startup delay the task is spawned.
SpawnTarget ==
    /\ pc = "mac_startup"
    /\ targetProc' = "running"
    /\ pc' = "mac_target"
    /\ UNCHANGED <<sideVars, normVars, envVars, taskVars, tracerProc, taskExit, readBack, outputStream, classVars, procExit>>

\* Lines 554-556: the task closes.
TargetClose ==
    /\ pc = "mac_target"
    /\ \E code \in ExitCodes : taskExit' = <<code>>
    /\ targetProc' = "exited"
    /\ pc' = "mac_drain"
    /\ UNCHANGED <<sideVars, normVars, envVars, taskVars, tracerProc, readBack, outputStream, classVars, procExit>>

\* Lines 559-565: after the drain delay fs_usage is unpiped and sent SIGINT.
KillFsUsage ==
    /\ pc = "mac_drain"
    /\ pc' = "mac_killed"
    /\ UNCHANGED <<sideVars, normVars, envVars, taskVars, procVars, classVars, procExit>>

\* fs_usage exits on the signal.
FsUsageExits ==
    /\ pc = "mac_killed"
    /\ tracerProc = "running"
    /\ tracerProc' = "exited"
    /\ UNCHANGED <<sideVars, normVars, pc, envVars, taskVars, targetProc, taskExit, readBack, outputStream, classVars, procExit>>

\* WaitFsUsage without the timer: only the 'close' of fs_usage ends the
\* wait.
WaitFsUsageForClose ==
    /\ pc = "mac_killed"
    /\ tracerProc = "exited"
    /\ outputStream' = "ended"
    /\ pc' = "mac_end"
    /\ UNCHANGED <<sideVars, normVars, envVars, taskVars, tracerProc, targetProc, taskExit,
                   readBack, classVars, procExit>>

\* Lines 568-574: the wait ends on the 'close' of fs_usage or on the
\* timeout, whichever is first; outputStream.end() is then called.
WaitFsUsage ==
    /\ pc = "mac_killed"
    /\ outputStream' = "ended"
    /\ pc' = "mac_end"
    /\ UNCHANGED <<sideVars, normVars, envVars, taskVars, tracerProc, targetProc, taskExit,
                   readBack, classVars, procExit>>

\* Line 575: the stream has flushed and emits 'close'; main() goes on.
OutputStreamClose ==
    /\ pc = "mac_end"
    /\ outputStream = "ended"
    /\ outputStream' = "closed"
    /\ pc' = "mac_read"
    /\ UNCHANGED <<sideVars, normVars, envVars, taskVars, tracerProc, targetProc, taskExit,
                   readBack, classVars, procExit>>

\* Lines 578-586.
ReadFsUsageOutput ==
    /\ pc = "mac_read"
    /\ \E ok \in BOOLEAN :
          LET r == parseFsUsageOutput(IF ok THEN rawTrace ELSE <<>>)
          IN  /\ readBack' = IF ok THEN "read" ELSE "failed"
              /\ reads' = r.reads
              /\ writes' = r.writes
    /\ pc' = "traced"
    /\ UNCHANGED <<sideVars, backend, workspaceRoot, rawTrace, normPc, trackedPids,
                   envVars, taskVars, tracerProc, targetProc, taskExit, outputStream, classVars,
                   procExit>>

\* Lines 779-952: the project roots are queried (an error leaves the set
\* empty), the accesses are classified and the report is printed.
Classify ==
    /\ pc = "traced"
    /\ \E roots \in {nx.roots, <<>>} :
          LET taskReads == TaskAccesses(reads)
              taskWrites == TaskAccesses(writes)
              ur == UndeclaredReadsOf(taskReads, taskConfigs, resolvedInputs)
              uw == UndeclaredWritesOf(taskWrites, taskConfigs)
              cr == CrossProjectReadsOf(taskReads, taskConfigs, resolvedInputs, roots)
          IN  /\ allProjectRoots' = roots
              /\ undeclaredReads' = ur
              /\ undeclaredWrites' = uw
              /\ crossProjectReads' = cr
              /\ relevantReads' = RelevantReadsOf(taskReads, taskConfigs, resolvedInputs)
              /\ relevantWrites' = RelevantWritesOf(taskWrites, taskConfigs)
              /\ report' = <<JsonReport(taskConfigs, target, ur, uw, cr, taskExit[1])>>
    /\ pc' = "reported"
    /\ UNCHANGED <<sideVars, normVars, envVars, taskVars, procVars, procExit>>

\* main() resolving to an exit with the exit code of the task.
ExitWithTaskCode ==
    /\ pc = "reported"
    /\ ProcessExit(taskExit[1])
    /\ UNCHANGED <<sideVars, normVars, envVars, taskVars, procVars, classVars>>

\* Lines 955-958: main() has resolved.
Exit ==
    /\ pc = "reported"
    /\ ProcessExit(0)
    /\ UNCHANGED <<sideVars, normVars, envVars, taskVars, procVars, classVars>>

Next ==
    \/ UsageError
    \/ ParseArgs
    \/ UnsupportedPlatform
    \/ DetectPlatform
    \/ GetTaskConfig
    \/ GetResolvedInputs
    \/ SpawnStrace
    \/ StraceSpawnError
    \/ TracerWrites
    \/ StraceClose
    \/ ReadStraceOutput
    \/ SudoMissing
    \/ SpawnFsUsage
    \/ SpawnTarget
    \/ TargetClose
    \/ KillFsUsage
    \/ FsUsageExits
    \/ WaitFsUsage
    \/ OutputStreamClose
    \/ ReadFsUsageOutput
    \/ Classify
    \/ Exit

Spec == Init /\ [][Next]_vars

-----------------------------------------------------------------------------
(* The classification on its own: main() from the fetch of the task        *)
(* configurations on, with any result of the tracing phase.                *)

ClassifyInit ==
    /\ MainStart
    /\ pc = "config"
    /\ nx \in ClassifiedWorkspaces
    /\ \E r \in nx.requests :
          /\ argv = <<r>>
          /\ project = SplitOn(r, ":")[1]
          /\ target = SplitOn(r, ":")[2]
    /\ platform = "linux"
    /\ isRoot = FALSE
    /\ backend = "strace"

\* The tracing phase reports a read.
ObserveRead ==
    /\ pc = "trace"
    /\ Cardinality(reads) + Cardinality(writes) < MaxAccesses
    /\ \E f \in nx.readPool \ reads : reads' = reads \cup {f}
    /\ UNCHANGED <<sideVars, backend, workspaceRoot, rawTrace, normPc, writes, trackedPids, mainVars>>

\* The tracing phase reports a write.
ObserveWrite ==
    /\ pc = "trace"
    /\ Cardinality(reads) + Cardinality(writes) < MaxAccesses
    /\ \E f \in nx.writePool \ writes : writes' = writes \cup {f}
    /\ UNCHANGED <<sideVars, backend, workspaceRoot, rawTrace, normPc, reads, trackedPids, mainVars>>

\* The tracing phase returns with the exit code of the task.
TraceReturns ==
    /\ pc = "trace"
    /\ \E code \in ExitCodes : taskExit' = <<code>>
    /\ pc' = "traced"
    /\ UNCHANGED <<sideVars, normVars, envVars, taskVars, tracerProc, targetProc, readBack, outputStream, classVars, procExit>>

ClassifyNext ==
    \/ GetTaskConfig
    \/ GetResolvedInputs
    \/ ObserveRead
    \/ ObserveWrite
    \/ TraceReturns
    \/ Classify

SpecClassify == ClassifyInit /\ [][ClassifyNext]_vars


-----------------------------------------------------------------------------
(* Properties of the run of main().                                        *)

\* C1 as stated: once the tracer has exited, its exit code is the exit code
\* of the traced task whenever the tracing phase returned one, and 1 when
\* the run ended on a tracer-level failure before that.
C1_ExitCodeMirrorsTask ==
    pc = "exited" =>
        IF taskExit # <<>> THEN procExit = taskExit ELSE procExit = <<1>>

\* C1, amended: a run that prints its report exits with 0 whatever the exit
\* code of the task, which is passed on in the exitCode field of the report
\* only; a run that ends without a report (usage error, unsupported
\* platform, no root privileges for fs_usage, strace not spawned) exits 1.
C1_ExitsZeroAfterReport ==
    pc = "exited" =>
        IF report # <<>>
        THEN procExit = <<0>> /\ <<report[1].exitCode>> = taskExit
        ELSE procExit = <<1>> /\ taskExit = <<>>

\* A task that failed, traced to the end: the tracer has exited with 0.
C1_Witness ==
    /\ pc = "exited"
    /\ report # <<>>
    /\ taskExit = <<1>>
    /\ procExit = <<0>>

\* The query for the requested task has failed: it has been made, and
\* getNxProjectConfig throws for the project and target of the request.
QueryFailed ==
    /\ pc \notin {"start", "platform", "config"}
    /\ ~getNxProjectConfig(nx.projects, project, target).ok

\* C2: after the query for the requested project:target has failed neither
\* the tracer nor the task is started.
C2_NoTraceAfterFailedQuery ==
    QueryFailed => tracerProc = "none" /\ targetProc = "none"

-----------------------------------------------------------------------------
(* Properties of the classification.                                       *)

Range(seq) == {seq[i] : i \in 1..Len(seq)}

\* The path is the directory or lies below it.
Under(filePath, dir) == filePath = dir \/ StartsWith(filePath, dir \o <<"/">>)

\* The root of the project of the request; <<>> when Nx does not know it.
OwnRoot == IF project \in DOMAIN nx.projects THEN nx.projects[project].root ELSE <<>>

\* The observed reads that are files below the root of another project of
\* the project graph.
ForeignReads ==
    {f \in TaskAccesses(reads) :
        /\ f \notin nx.directories
        /\ \E root \in Range(nx.roots) : root # OwnRoot /\ Under(f, root)}

\* C3: once the accesses are classified (the project graph having been
\* read), every read of a file below another project's root that the
\* resolved inputs do not list is a cross-project read, and no path is both
\* an undeclared read and a cross-project read.
C3_CrossProjectNotUndeclared ==
    (pc = "reported" /\ taskConfigs # <<>> /\ allProjectRoots = nx.roots) =>
        /\ \A f \in ForeignReads :
              ~(resolvedInputs.known /\ f \in resolvedInputs.files)
                  => f \in crossProjectReads
        /\ undeclaredReads \cap crossProjectReads = {}

C5_Scenario ==
    /\ pc = "reported"
    /\ project = <<"data-processor">> /\ target = <<"process-data">>
    /\ nx \in {ReadmeWorkspace(dep) : dep \in FetcherDeps}
    /\ reads = {In(ProcessorRoot, InputTxt), In(ProcessorRoot, UndeclaredTxt)}
    /\ writes = {In(ProcessorRoot, OutputTxt), In(ProcessorRoot, ExtraTxt)}

DependencyTasksOf(proj, dep) ==
    IF dep.type = "string"
    THEN IF StartsWith(dep.str, <<"^">>)
         THEN {<<p, Tail(dep.str)>> : p \in nx.dependencies[proj]}
         ELSE IF Includes(dep.str, <<":">>)
         THEN {<<SplitOn(dep.str, ":")[1], SplitOn(dep.str, ":")[2]>>}
         ELSE {<<proj, dep.str>>}
    ELSE IF dep.projects = <<>> \/ dep.projects = <<"self">>
    THEN {<<proj, dep.target>>}
    ELSE IF dep.projects = <<"dependencies">>
    THEN {<<p, dep.target>> : p \in nx.dependencies[proj]}
    ELSE {<<dep.projects, dep.target>>}

\* The tasks the task of the request depends on directly.
DependencyTasks ==
    LET A == getNxProjectConfig(nx.projects, project, target)
    IN  IF ~A.ok THEN {}
        ELSE {B \in UNION {DependencyTasksOf(project, dep) : dep \in Range(A.target.dependsOn)} :
                 B # <<project, target>> /\ getNxProjectConfig(nx.projects, B[1], B[2]).ok}

\* The observed reads that the declared outputs of task B cover.
ReadsCoveredBy(B) ==
    LET config == getNxProjectConfig(nx.projects, B[1], B[2])
    IN  {f \in TaskAccesses(reads) :
            /\ f \notin nx.directories
            /\ matchesPatterns(nx.namedInputs, f, config.outputs, config.root)}

\* C6: when the task of the request depends on a task B, exactly one
\* observed read is covered by B's declared outputs and no other read
\* lies in another project, the run has no cross-project read.
C6_DependencyOutputRead ==
    pc = "reported" =>
        \A B \in DependencyTasks :
            (Cardinality(ReadsCoveredBy(B)) = 1 /\ ForeignReads \subseteq ReadsCoveredBy(B))
                => crossProjectReads = {}

-----------------------------------------------------------------------------
(* The arrays the parsers return.  Each parser collects paths in a         *)
(* JavaScript Set, which keeps them in the order of their first insertion, *)
(* and returns Array.from(set).sort().                                     *)

\* The code units of the traced paths in ascending order: sort() without a
\* comparator orders strings by their UTF-16 code units.  No entry is a
\* prefix of another, so comparing entry by entry is comparing unit by unit.
CodeUnitOrder ==
    << "-old", ".", "/", "a", "b", "data", "dist", "etc", "js",
       "node_modules", "out", "src", "tmp", "ts", "ws", "x" >>

CodeUnit(ch) == CHOOSE i \in 1..Len(CodeUnitOrder) : CodeUnitOrder[i] = ch

\* a < b for two strings.
StringLess(a, b) ==
    \E k \in 0..Len(a) :
        /\ k <= Len(b)
        /\ \A j \in 1..k : a[j] = b[j]
        /\ IF k = Len(a) THEN k < Len(b)
           ELSE k < Len(b) /\ CodeUnit(a[k + 1]) < CodeUnit(b[k + 1])

\* Whether a line adds its path to the Set named which.
LineAdds(b, line, which) ==
    IF b = "strace"
    THEN /\ StraceLineMatches(line)
         /\ RelevantRelativePath(line.path).keep
         /\ IF which = "reads" THEN StraceReadFlags(line.flags)
                               ELSE StraceWriteFlags(line.flags)
    ELSE /\ FsUsageLineMatches(line)
         /\ RelevantRelativePath(line.path).keep
         /\ IF which = "reads" THEN FsUsageReadFlags(line.flags)
                               ELSE FsUsageWriteFlags(line.flags)

\* What the body of the loop does with one line, whatever the other
\* lines are: the path it adds and the Sets it adds it to.
LineRecord(b, line) ==
    IF LineAdds(b, line, "reads") \/ LineAdds(b, line, "writes")
    THEN [rel |-> RelevantRelativePath(line.path).rel,
          reads |-> LineAdds(b, line, "reads"),
          writes |-> LineAdds(b, line, "writes")]
    ELSE [rel |-> <<>>, reads |-> FALSE, writes |-> FALSE]

\* The loop over the lines of the text, as what each line does.
RECURSIVE LineRecords(_, _)
LineRecords(b, lines) ==
    IF Len(lines) = 0 THEN <<>>
    ELSE <<LineRecord(b, Head(lines))>> \o LineRecords(b, Tail(lines))

\* The Set named which after the loop, as the sequence of its elements in
\* insertion order: add() of an element already present changes nothing.
RECURSIVE SetInsertions(_, _, _)
SetInsertions(records, which, acc) ==
    IF Len(records) = 0 THEN acc
    ELSE LET rec == Head(records)
         IN  IF rec[which] /\ \A i \in 1..Len(acc) : acc[i] # rec.rel
             THEN SetInsertions(Tail(records), which, Append(acc, rec.rel))
             ELSE SetInsertions(Tail(records), which, acc)

\* ArraySort that leaves the array in insertion order.
ArrayInsertionOrder(arr) == arr

\* Array.prototype.sort() on an array of distinct strings.
ArraySort(arr) ==
    LET S == {arr[i] : i \in 1..Len(arr)}
    IN  [i \in 1..Cardinality(S) |->
            CHOOSE x \in S : Cardinality({y \in S : StringLess(y, x)}) = i - 1]

\* The object a parser returns when its loop has done what records says.
ArraysOf(records) ==
    [reads  |-> ArraySort(SetInsertions(records, "reads", <<>>)),
     writes |-> ArraySort(SetInsertions(records, "writes", <<>>))]

\* The object a parser returns for a trace text.
ParsedArrays(b, text) == ArraysOf(LineRecords(b, text))

\* The lines of a text in every order.
LineOrders(text) ==
    {[i \in 1..Len(text) |-> text[q[i]]] :
        q \in {r \in [1..Len(text) -> 1..Len(text)] :
                  \A i, j \in 1..Len(text) : r[i] = r[j] => i = j}}

\* A text with one of its lines repeated, before or after the others.
Repetitions(text) ==
    {Append(text, text[i]) : i \in 1..Len(text)}
    \cup {<<text[i]>> \o text : i \in 1..Len(text)}

\* Texts made of the same records as text.
SameRecords(text) == LineOrders(text) \cup Repetitions(text)

\* Every loop over the lines ends with the given arrays.
AllParseTo(loops, arrays) == \A records \in loops : ArraysOf(records) = arrays

\* The elements of an array.
Elements(arr) == {arr[i] : i \in 1..Len(arr)}

\* The arrays hold the sets the run goes on with.
ArraysHold(arrays, rs, ws) == Elements(arrays.reads) = rs /\ Elements(arrays.writes) = ws

\* C11: the arrays the strace and fs_usage parsers return depend only on
\* the set of distinct records of the trace text: the lines of the text in
\* any other order, and the text with any of its lines repeated (a text
\* that already repeats lines included), parse to the same reads and
\* writes, and these are the sets the run goes on with.  The loop treats
\* each line by itself, so a reordered text is the same line records
\* reordered.
C11_ParseDependsOnRecordSet ==
    (normPc = "parsed" /\ backend \in {"strace", "fs_usage"}) =>
        /\ AllParseTo(SameRecords(LineRecords(backend, rawTrace)),
                      ParsedArrays(backend, rawTrace))
        /\ ArraysHold(ParsedArrays(backend, rawTrace), reads, writes)

\* A parsed trace whose lines insert two paths in descending order, one of
\* them read and written: sorting changes the array, and the reversed text
\* inserts in the other order.
C11_Witness ==
    /\ normPc = "parsed"
    /\ backend \in {"strace", "fs_usage"}
    /\ Len(rawTrace) = 2
    /\ Cardinality(reads) = 2
    /\ writes # {}
    /\ SetInsertions(LineRecords(backend, rawTrace), "reads", <<>>)
           # ParsedArrays(backend, rawTrace).reads

-----------------------------------------------------------------------------
(* expandInputs and resolveNamedInput call by call.  A frame of callStack  *)
(* is a flatMap in progress and holds the patterns it has not reached; the *)
(* bottom frame is the call expandInputs makes for one input.  The visited *)
(* Set is created by that call and handed down to every nested call.       *)

\* The longest list of patterns a named input has.
MaxGroupSize == 2

\* The deepest call stack followed.
MaxStack == 6

GroupA == <<"A">>
GroupB == <<"B">>
DepGroupA == <<"^", "A">>
DepGroupB == <<"^", "B">>
SrcGlob == <<"src", "/", "*", "*">>
NegatedGlob == <<"!", "src", "/", "generated", "/", "*", "*">>
MissingDep == <<"^", "missing">>

\* What a named input may list: the two names, a ^ reference, a pattern.
GroupEntries == { GroupA, GroupB, DepGroupA, SrcGlob }

GroupLists == UNION {[1..n -> GroupEntries] : n \in 0..MaxGroupSize}

\* The inputs arrays expandInputs is called with.
InputLists ==
    { <<GroupA>>, <<DepGroupB, GroupA>>, <<SrcGlob, <<"{runtime}">> >>,
      <<GroupB, NegatedGlob>>, <<MissingDep>>, <<DepGroupA, DepGroupB>> }

ResolveInit ==
    /\ \E a \in GroupLists, b \in GroupLists :
          namedInputsCache = [n \in {GroupA, GroupB} |-> IF n = GroupA THEN a ELSE b]
    /\ expandingInputs \in InputLists
    /\ nextInput = 1
    /\ callStack = <<>>
    /\ visitedInputs = {}
    /\ resolvedPatterns = <<>>
    /\ expandResult = [patterns |-> <<>>, negations |-> <<>>]
    /\ resolvePc = "loop"
    /\ backend = "none"
    /\ workspaceRoot = <<"/", "ws">>
    /\ rawTrace = <<>>
    /\ normPc = "idle"
    /\ reads = {}
    /\ writes = {}
    /\ trackedPids = {}
    /\ MainIdle
    /\ MatchIdle
    /\ OverlapIdle
    /\ MoreIdle

\* The input the innermost call is about to look at.
CurrentInput == Head(callStack[Len(callStack)])

\* The call stack once the innermost flatMap has moved past its pattern.
Advance == [callStack EXCEPT ![Len(callStack)] = Tail(@)]

Resolving ==
    /\ resolvePc = "resolving"
    /\ Len(callStack) > 0
    /\ Len(callStack[Len(callStack)]) > 0

\* expandInputs: resolveNamedInput(input) with a new visited Set.
ExpandCall ==
    /\ resolvePc = "loop"
    /\ nextInput <= Len(expandingInputs)
    /\ callStack' = << <<expandingInputs[nextInput]>> >>
    /\ nextInput' = nextInput + 1
    /\ visitedInputs' = {}
    /\ resolvedPatterns' = <<>>
    /\ resolvePc' = "resolving"
    /\ UNCHANGED <<normVars, mainVars, matchVars, overlapVars, moreVars, namedInputsCache, expandingInputs, expandResult>>

\* if (visited.has(input)) return [];
ResolveVisitedAgain ==
    /\ Resolving
    /\ CurrentInput \in visitedInputs
    /\ callStack' = Advance
    /\ UNCHANGED <<normVars, mainVars, matchVars, overlapVars, moreVars, namedInputsCache, expandingInputs, nextInput,
                   visitedInputs, resolvedPatterns, expandResult, resolvePc>>

\* ResolveNamed without visited.add(input).
ResolveNamedUnguarded ==
    /\ Resolving
    /\ Len(callStack) < MaxStack
    /\ CurrentInput \notin visitedInputs
    /\ IsStringInput(CurrentInput)
    /\ CurrentInput \in DOMAIN namedInputsCache
    /\ callStack' = Append(Advance, namedInputsCache[CurrentInput])
    /\ UNCHANGED <<normVars, mainVars, matchVars, overlapVars, moreVars, namedInputsCache, expandingInputs, nextInput,
                   visitedInputs, resolvedPatterns, expandResult, resolvePc>>

\* The input names a named input: it is marked visited and its patterns
\* are resolved in turn.
ResolveNamed ==
    /\ Resolving
    /\ Len(callStack) < MaxStack
    /\ CurrentInput \notin visitedInputs
    /\ IsStringInput(CurrentInput)
    /\ CurrentInput \in DOMAIN namedInputsCache
    /\ visitedInputs' = visitedInputs \cup {CurrentInput}
    /\ callStack' = Append(Advance, namedInputsCache[CurrentInput])
    /\ UNCHANGED <<normVars, mainVars, matchVars, overlapVars, moreVars, namedInputsCache, expandingInputs, nextInput,
                   resolvedPatterns, expandResult, resolvePc>>

\* The input is ^name of a named input: the ^name string is marked visited
\* and the patterns of name are resolved in turn.
ResolveDependency ==
    /\ Resolving
    /\ Len(callStack) < MaxStack
    /\ CurrentInput \notin visitedInputs
    /\ IsStringInput(CurrentInput)
    /\ CurrentInput \notin DOMAIN namedInputsCache
    /\ StartsWith(CurrentInput, <<"^">>)
    /\ Tail(CurrentInput) \in DOMAIN namedInputsCache
    /\ visitedInputs' = visitedInputs \cup {CurrentInput}
    /\ callStack' = Append(Advance, namedInputsCache[Tail(CurrentInput)])
    /\ UNCHANGED <<normVars, mainVars, matchVars, overlapVars, moreVars, namedInputsCache, expandingInputs, nextInput,
                   resolvedPatterns, expandResult, resolvePc>>

\* Any other string is a file pattern: return [input].
ResolvePattern ==
    /\ Resolving
    /\ CurrentInput \notin visitedInputs
    /\ IsStringInput(CurrentInput)
    /\ CurrentInput \notin DOMAIN namedInputsCache
    /\ IF StartsWith(CurrentInput, <<"^">>)
       THEN Tail(CurrentInput) \notin DOMAIN namedInputsCache
       ELSE TRUE
    /\ resolvedPatterns' = Append(resolvedPatterns, CurrentInput)
    /\ callStack' = Advance
    /\ UNCHANGED <<normVars, mainVars, matchVars, overlapVars, moreVars, namedInputsCache, expandingInputs, nextInput,
                   visitedInputs, expandResult, resolvePc>>

\* An object input (runtime, env, externalDependencies): return [].
ResolveObject ==
    /\ Resolving
    /\ CurrentInput \notin visitedInputs
    /\ ~IsStringInput(CurrentInput)
    /\ callStack' = Advance
    /\ UNCHANGED <<normVars, mainVars, matchVars, overlapVars, moreVars, namedInputsCache, expandingInputs, nextInput,
                   visitedInputs, resolvedPatterns, expandResult, resolvePc>>

\* A flatMap has reached the end of its patterns and returns to its caller.
FlatMapReturn ==
    /\ resolvePc = "resolving"
    /\ Len(callStack) > 1
    /\ Len(callStack[Len(callStack)]) = 0
    /\ callStack' = SubSeq(callStack, 1, Len(callStack) - 1)
    /\ UNCHANGED <<normVars, mainVars, matchVars, overlapVars, moreVars, namedInputsCache, expandingInputs, nextInput,
                   visitedInputs, resolvedPatterns, expandResult, resolvePc>>

\* The call of expandInputs returns: its patterns are split into the
\* negations, without their "!", and the others.
ExpandCollect ==
    /\ resolvePc = "resolving"
    /\ Len(callStack) = 1
    /\ Len(callStack[1]) = 0
    /\ LET IsNegation(p) == StartsWith(p, <<"!">>)
           neg == SelectSeq(resolvedPatterns, IsNegation)
       IN  expandResult' =
             [patterns |-> expandResult.patterns
                             \o SelectSeq(resolvedPatterns, LAMBDA p : ~IsNegation(p)),
              negations |-> expandResult.negations
                             \o [i \in 1..Len(neg) |-> Tail(neg[i])]]
    /\ callStack' = <<>>
    /\ resolvePc' = "loop"
    /\ UNCHANGED <<normVars, mainVars, matchVars, overlapVars, moreVars, namedInputsCache, expandingInputs, nextInput,
                   visitedInputs, resolvedPatterns>>

\* return { patterns: expanded, negations };
ExpandReturn ==
    /\ resolvePc = "loop"
    /\ nextInput > Len(expandingInputs)
    /\ resolvePc' = "returned"
    /\ UNCHANGED <<normVars, mainVars, matchVars, overlapVars, moreVars, namedInputsCache, expandingInputs, nextInput, callStack,
                   visitedInputs, resolvedPatterns, expandResult>>

ResolveNext ==
    \/ ExpandCall
    \/ ResolveVisitedAgain
    \/ ResolveNamed
    \/ ResolveDependency
    \/ ResolvePattern
    \/ ResolveObject
    \/ FlatMapReturn
    \/ ExpandCollect
    \/ ExpandReturn

SpecResolve == ResolveInit /\ [][ResolveNext]_vars

\* The calls are synchronous JavaScript: a call that can take a step takes it.
SpecResolveLive == SpecResolve /\ WF_vars(ResolveNext)

\* A and B list each other.
MutualCycle ==
    /\ \E i \in 1..Len(namedInputsCache[GroupA]) : namedInputsCache[GroupA][i] = GroupB
    /\ \E i \in 1..Len(namedInputsCache[GroupB]) : namedInputsCache[GroupB][i] = GroupA

\* A lists itself through ^A.
DependencyCycle ==
    \E i \in 1..Len(namedInputsCache[GroupA]) : namedInputsCache[GroupA][i] = DepGroupA

\* C12: whatever the named inputs are (A listing B and B listing A, a named
\* input listing itself, a cycle through a ^ reference), expandInputs
\* returns, the call stack stays below the depth followed, and what it
\* returns is the list the recursive definition gives.
C12_ResolutionTerminates ==
    /\ [](Len(callStack) < MaxStack)
    /\ <>(/\ resolvePc = "returned"
          /\ expandResult = expandInputs(namedInputsCache, expandingInputs))

\* expandInputs has returned a pattern for the inputs [A] where A and B
\* list each other and A also lists ^A.
C12_Witness ==
    /\ resolvePc = "returned"
    /\ MutualCycle
    /\ DependencyCycle
    /\ expandingInputs = <<DepGroupB, GroupA>>

-----------------------------------------------------------------------------
(* matchesPatterns of src/tracer-nx.mjs: the inputs are used as they are   *)
(* written, a "*" is compiled to ".*" and nothing is escaped.              *)

\* Lines 228-230: inputs that are not strings, ^ references and negations
\* are passed over.
PlainSkips(pattern) ==
    \/ ~IsStringInput(pattern)
    \/ StartsWith(pattern, <<"^">>)
    \/ StartsWith(pattern, <<"!">>)

\* absolutePattern.replace(/\*/g, '.*'): every other character is left as
\* it is, so a "." of the pattern is the regular expression's any-character.
StarToRegex(absolutePattern) ==
    [i \in 1..Len(absolutePattern) |->
        IF absolutePattern[i] = "*" THEN GLOBSTAR ELSE absolutePattern[i]]

\* Lines 238-246.
MatchesAbsolutePatternPlain(absolutePath, absolutePattern) ==
    IF Includes(absolutePattern, <<"*">>)
    THEN RegexTest(StarToRegex(absolutePattern), absolutePath)
    ELSE \/ absolutePath = absolutePattern
         \/ StartsWith(absolutePath, absolutePattern \o <<"/">>)

matchesSinglePatternPlain(absolutePath, pattern, projectRoot) ==
    MatchesAbsolutePatternPlain(absolutePath,
                                AbsoluteOf(expandNxPath(pattern, projectRoot)))

matchesPatternsPlain(filePath, patterns, projectRoot) ==
    \E i \in 1..Len(patterns) :
        /\ ~PlainSkips(patterns[i])
        /\ matchesSinglePatternPlain(AbsoluteOf(filePath), patterns[i], projectRoot)

-----------------------------------------------------------------------------
(* matchesPatterns called on its own, for either tracer.                   *)

\* The longest inputs array tried.
MaxInputs == 2

TracerFiles == {"part_002", "tracer-nx.mjs"}

\* Project roots: two in a directory of projects, and the workspace itself.
MatchRoots == { <<"libs", "/", "app">>, <<"apps", "/", "web">>, <<".">> }

RootTsGlob   == <<"{projectRoot}", "/", "*", "*", "/", "*", ".", "ts">>
RootAnyGlob  == <<"{projectRoot}", "/", "*", "*", "/", "*">>
NotSpecGlob  == <<"!", "{projectRoot}", "/", "*", "*", "/", "*", ".", "spec", ".", "ts">>
Production   == <<"production">>
DepProduction == <<"^", "production">>

MatchInputPool ==
    { SrcGlob, NegatedGlob, RootTsGlob, RootAnyGlob, NotSpecGlob, Production,
      DepProduction, <<"{runtime}">> }

MatchInputLists == UNION {[1..n -> MatchInputPool] : n \in 1..MaxInputs}

ProductionInputs ==
    [n \in {Production} |-> <<RootAnyGlob, NotSpecGlob>>]

\* The files tried for a project root: below it, beside it, elsewhere in
\* the workspace and outside the workspace.
GeneratedTs == <<"src", "/", "generated", "/", "x", ".", "ts">>
RootSrcTs(root)  == root \o <<"/", "src", "/", "a", ".", "ts">>
RootTs(root)     == root \o <<"/", "a", ".", "ts">>
RootSpecTs(root) == root \o <<"/", "src", "/", "a", ".", "spec", ".", "ts">>
RootJs(root)     == root \o <<"/", "src", "/", "a", ".", "js">>
BesideRootTs(root) == root \o <<"-old", "/", "a", ".", "ts">>
NestedRootTs(root) == <<"packages", "/">> \o root \o <<"/", "a", ".", "ts">>
TopLevelTs == <<"a", ".", "ts">>
OutsideTs  == <<"/", "etc", "/", "a", ".", "ts">>

MatchFiles(root) ==
    { root, GeneratedTs, RootSrcTs(root), RootTs(root), RootSpecTs(root), RootJs(root),
      BesideRootTs(root), NestedRootTs(root), TopLevelTs, OutsideTs,
      <<"src", "/", "a", ".", "ts">> }

MatchInit ==
    /\ tracerFile \in TracerFiles
    /\ matchRoot \in MatchRoots
    /\ matchFile \in MatchFiles(matchRoot)
    /\ matchInputs \in MatchInputLists
    /\ matchResult = <<>>
    /\ namedInputsCache \in {NoNamedInputs, ProductionInputs}
    /\ expandingInputs = <<>>
    /\ nextInput = 1
    /\ callStack = <<>>
    /\ visitedInputs = {}
    /\ resolvedPatterns = <<>>
    /\ expandResult = [patterns |-> <<>>, negations |-> <<>>]
    /\ resolvePc = "idle"
    /\ backend = "none"
    /\ workspaceRoot = <<"/", "ws">>
    /\ rawTrace = <<>>
    /\ normPc = "idle"
    /\ reads = {}
    /\ writes = {}
    /\ trackedPids = {}
    /\ MainIdle
    /\ OverlapIdle
    /\ MoreIdle

\* matchesPatterns of the current tracer.
MatchesPatterns ==
    /\ matchResult = <<>>
    /\ tracerFile = "part_002"
    /\ matchResult' = <<matchesPatterns(namedInputsCache, matchFile, matchInputs, matchRoot)>>
    /\ UNCHANGED <<normVars, mainVars, resolveVars, overlapVars, moreVars, tracerFile, matchFile,
                   matchInputs, matchRoot>>

\* matchesPatterns of src/tracer-nx.mjs.
MatchesPatternsPlain ==
    /\ matchResult = <<>>
    /\ tracerFile = "tracer-nx.mjs"
    /\ matchResult' = <<matchesPatternsPlain(matchFile, matchInputs, matchRoot)>>
    /\ UNCHANGED <<normVars, mainVars, resolveVars, overlapVars, moreVars, tracerFile, matchFile,
                   matchInputs, matchRoot>>

MatchNext == MatchesPatterns \/ MatchesPatternsPlain

SpecMatch == MatchInit /\ [][MatchNext]_vars

\* The call has returned true: the task declares the file.
Declared == matchResult = <<TRUE>>

\* Whether the file matches one pattern, by the matcher of the tracer run.
MatchesOne(pattern) ==
    IF tracerFile = "part_002"
    THEN matchesSinglePattern(AbsoluteOf(matchFile), pattern, matchRoot)
    ELSE matchesSinglePatternPlain(AbsoluteOf(matchFile), pattern, matchRoot)

\* The patterns the inputs stand for (named inputs replaced by what they
\* list), split into those written with a leading "!" and the others.
PositivePatterns == expandInputs(namedInputsCache, matchInputs).patterns
NegationPatterns == expandInputs(namedInputsCache, matchInputs).negations

\* C13: a file is declared only if it matches one of the positive patterns
\* and none of the negation patterns; in particular the inputs src/** and
\* !src/generated/** do not declare src/generated/x.ts.
C13_NegationExcludes ==
    Declared =>
        /\ \E i \in 1..Len(PositivePatterns) : MatchesOne(PositivePatterns[i])
        /\ \A i \in 1..Len(NegationPatterns) : ~MatchesOne(NegationPatterns[i])

\* The file is below the project root of the call.
UnderMatchRoot ==
    StartsWith(AbsoluteOf(matchFile), AbsoluteOf(matchRoot) \o <<"/">>)

\* The file's name ends in ".ts".
IsTsFile ==
    /\ Len(matchFile) >= 2
    /\ SubSeq(matchFile, Len(matchFile) - 1, Len(matchFile)) = <<".", "ts">>

\* C14: for every project root, the inputs [{projectRoot}/**/*.ts] declare
\* {projectRoot}/src/a.ts and {projectRoot}/a.ts, and declare no .ts file
\* that is not below the project root.
C14_RootGlobMatchesAtEveryDepth ==
    (matchResult # <<>> /\ matchInputs = <<RootTsGlob>>) =>
        /\ matchFile \in {RootSrcTs(matchRoot), RootTs(matchRoot)} => Declared
        /\ (IsTsFile /\ ~UnderMatchRoot) => ~Declared

-----------------------------------------------------------------------------
(* Bookkeeping files in the classification.                                *)

\* The files of a printed listing.
ListedFiles(listing) == {line.file : line \in listing}

\* The bookkeeping files the tracer observed.
BookkeepingAccesses == {f \in reads \cup writes : isNxInfrastructure(f)}

\* C15: a bookkeeping file the task read or wrote is in none of the three
\* lists of the report and in neither printed listing (so it is counted
\* neither as declared nor as undeclared), whether or not a declared
\* pattern matches it.
C15_BookkeepingDropped ==
    pc = "reported" =>
        \A f \in BookkeepingAccesses :
            /\ f \notin undeclaredReads \cup undeclaredWrites \cup crossProjectReads
            /\ f \notin ListedFiles(relevantReads) \cup ListedFiles(relevantWrites)
            /\ JsonString(f) \notin report[1].undeclaredReads
                                     \cup report[1].undeclaredWrites
                                     \cup report[1].crossProjectReads

\* A report on a task that read its project.json (which its inputs match)
\* and a configuration file of another project, and wrote a package.json
\* into its declared output directory and an undeclared .env file.
C15_Witness ==
    /\ pc = "reported"
    /\ allProjectRoots = nx.roots
    /\ {In(AppRoot, ProjectJson), In(E2eRoot, JestConfigTs)} \subseteq reads
    /\ {DistPackageJson, In(AppRoot, DotEnv)} \subseteq writes
    /\ findMatchingInputTask(In(AppRoot, ProjectJson), taskConfigs) # <<>>
    /\ findMatchingOutputTask(DistPackageJson, taskConfigs) # <<>>
    /\ isInOtherProject(allProjectRoots, ProjectRootOf(taskConfigs),
                        In(E2eRoot, JestConfigTs)) # <<>>

-----------------------------------------------------------------------------
(* The standalone strace tracer (src/tracer-strace.mjs): it traces any     *)
(* command, prints the files read and written and has no Nx configuration. *)

\* CONFIG.ignoredDirs of src/tracer-strace.mjs.
StraceTracerIgnoredDirs ==
    { <<"node_modules">>, <<".", "nx">>, <<".", "git">>, <<".", "angular">>,
      <<"proc">>, <<"dev">>, <<"sys">> }

\* Lines 42-47 of its parseStraceOutput.
StraceTracerRelativePath(filePath) ==
    IF \/ ~StartsWith(filePath, workspaceRoot)
       \/ \E dir \in StraceTracerIgnoredDirs : Includes(filePath, <<"/">> \o dir \o <<"/">>)
    THEN Skipped
    ELSE LET relativePath == PathRelative(workspaceRoot, workspaceRoot, filePath)
         IN  IF Len(relativePath) = 0 \/ StartsWith(relativePath, DotDot)
             THEN Skipped
             ELSE [keep |-> TRUE, rel |-> relativePath]

RECURSIVE StraceTracerParseLines(_, _)
StraceTracerParseLines(lines, acc) ==
    IF Len(lines) = 0 THEN acc
    ELSE LET line == Head(lines)
             r == StraceTracerRelativePath(line.path)
         IN  IF ~StraceLineMatches(line) \/ ~r.keep
             THEN StraceTracerParseLines(Tail(lines), acc)
             ELSE StraceTracerParseLines(Tail(lines),
                    [reads  |-> IF StraceReadFlags(line.flags)
                                THEN acc.reads \cup {r.rel} ELSE acc.reads,
                     writes |-> IF StraceWriteFlags(line.flags)
                                THEN acc.writes \cup {r.rel} ELSE acc.writes])

\* The commands the tracer is started with: none, or one to trace.
StraceTracerArgv == { <<>>, << <<"node">>, <<"test-script", ".", "mjs">> >> }

StraceTracerInit ==
    /\ tracerFile = "tracer-strace.mjs"
    /\ matchFile = <<>>
    /\ matchInputs = <<>>
    /\ matchRoot = <<>>
    /\ matchResult = <<>>
    /\ ResolveIdle
    /\ OverlapIdle
    /\ MoreIdle
    /\ backend = "strace"
    /\ workspaceRoot \in WorkspaceRoots
    /\ rawTrace = <<>>
    /\ normPc = "main"
    /\ reads = {}
    /\ writes = {}
    /\ trackedPids = {}
    /\ pc = "start"
    /\ argv \in StraceTracerArgv
    /\ platform = "linux"
    /\ isRoot = FALSE
    /\ nx = <<>>
    /\ project = <<>>
    /\ target = <<>>
    /\ taskConfigs = <<>>
    /\ resolvedInputs = NoResolvedInputs
    /\ tracerProc = "none"
    /\ targetProc = "none"
    /\ taskExit = <<>>
    /\ readBack = "none"
    /\ outputStream = "none"
    /\ allProjectRoots = <<>>
    /\ undeclaredReads = {}
    /\ undeclaredWrites = {}
    /\ crossProjectReads = {}
    /\ relevantReads = {}
    /\ relevantWrites = {}
    /\ report = <<>>
    /\ procExit = <<>>

\* Lines 71-75: no command.
StraceTracerUsage ==
    /\ pc = "start"
    /\ Len(argv) = 0
    /\ ProcessExit(1)
    /\ UNCHANGED <<sideVars, normVars, envVars, taskVars, procVars, classVars>>

\* Lines 90-99: strace is started on the command.
StraceTracerSpawn ==
    /\ pc = "start"
    /\ Len(argv) > 0
    /\ tracerProc' = "running"
    /\ targetProc' = "running"
    /\ pc' = "strace_wait"
    /\ UNCHANGED <<sideVars, normVars, envVars, taskVars, taskExit, readBack, outputStream,
                   classVars, procExit>>

\* strace appends a record to its output file while the command runs.
StraceTracerWrites ==
    /\ pc = "strace_wait"
    /\ Len(rawTrace) < MaxLines
    /\ \E line \in TraceLinesOf("strace") : rawTrace' = Append(rawTrace, line)
    /\ UNCHANGED <<sideVars, backend, workspaceRoot, normPc, reads, writes,
                   trackedPids, mainVars>>

\* Lines 105-112, 'error': the promise rejects and main().catch exits 1.
StraceTracerSpawnError ==
    /\ pc = "strace_wait"
    /\ rawTrace = <<>>
    /\ tracerProc' = "failed"
    /\ ProcessExit(1)
    /\ UNCHANGED <<sideVars, normVars, envVars, taskVars, targetProc, taskExit,
                   readBack, outputStream, classVars>>

\* Lines 105-112, 'close'.
StraceTracerClose ==
    /\ pc = "strace_wait"
    /\ \E code \in ExitCodes : taskExit' = <<code>>
    /\ tracerProc' = "exited"
    /\ targetProc' = "exited"
    /\ pc' = "strace_read"
    /\ UNCHANGED <<sideVars, normVars, envVars, taskVars, readBack, outputStream, classVars, procExit>>

\* Lines 118-128: the output file is read and parsed.
StraceTracerReadOutput ==
    /\ pc = "strace_read"
    /\ readBack' = "read"
    /\ LET r == StraceTracerParseLines(rawTrace, [reads |-> {}, writes |-> {}])
       IN  reads' = r.reads /\ writes' = r.writes
    /\ pc' = "traced"
    /\ UNCHANGED <<sideVars, backend, workspaceRoot, rawTrace, normPc, trackedPids,
                   envVars, taskVars, tracerProc, targetProc, taskExit, outputStream,
                   classVars, procExit>>

\* Lines 122-125: the output file cannot be read.
StraceTracerReadFails ==
    /\ pc = "strace_read"
    /\ readBack' = "failed"
    /\ ProcessExit(1)
    /\ UNCHANGED <<sideVars, normVars, envVars, taskVars, tracerProc, targetProc,
                   taskExit, outputStream, classVars>>

\* Lines 135-159: the results are printed, as text and as JSON.
StraceTracerReport ==
    /\ pc = "traced"
    /\ report' = << [reads |-> {JsonString(f) : f \in reads},
                     writes |-> {JsonString(f) : f \in writes}] >>
    /\ pc' = "reported"
    /\ UNCHANGED <<sideVars, normVars, envVars, taskVars, procVars, allProjectRoots,
                   undeclaredReads, undeclaredWrites, crossProjectReads,
                   relevantReads, relevantWrites, procExit>>

\* main() returns and node exits.
StraceTracerEnd ==
    /\ pc = "reported"
    /\ ProcessExit(0)
    /\ UNCHANGED <<sideVars, normVars, envVars, taskVars, procVars, classVars>>

StraceTracerNext ==
    \/ StraceTracerUsage
    \/ StraceTracerSpawn
    \/ StraceTracerWrites
    \/ StraceTracerSpawnError
    \/ StraceTracerClose
    \/ StraceTracerReadOutput
    \/ StraceTracerReadFails
    \/ StraceTracerReport
    \/ StraceTracerEnd

SpecStraceTracer == StraceTracerInit /\ [][StraceTracerNext]_vars

\* C16: when the trace output cannot be read back, the run goes on with no
\* reads and no writes, and it does not end without having printed the
\* report with the exit code of the task.
C16_UnreadableTraceStillReported ==
    readBack = "failed" =>
        /\ reads = {}
        /\ writes = {}
        /\ procExit # <<>> =>
              /\ report # <<>>
              /\ report[1].exitCode = taskExit[1]

-----------------------------------------------------------------------------
(* Two invocations of the Nx tracer on one Linux host, in one workspace.   *)
(* Each runs traceLinux: strace -o CONFIG.straceOutputFile opens the file  *)
(* for writing, creating or truncating it, and writes a line per openat at *)
(* its own file offset; after the task the tracer reads the file by name   *)
(* and unlinks it.  A line is the unit of the file.                        *)

Invocations == {1, 2}

\* What the task of an invocation opens: a file it reads and one it writes.
TaskOpens(i) ==
    IF i = 1
    THEN { TraceLine("openat", In(RunRoot, In(ProcessorRoot, InputTxt)),
                     <<"O_RDONLY", "|", "O_CLOEXEC">>, 3, 0),
           TraceLine("openat", In(RunRoot, In(ProcessorRoot, OutputTxt)),
                     <<"O_WRONLY", "|", "O_CREAT", "|", "O_TRUNC", ",", "0666">>, 3, 0) }
    ELSE { TraceLine("openat", In(RunRoot, In(FetcherRoot, SourceTxt)),
                     <<"O_RDONLY", "|", "O_CLOEXEC">>, 3, 0),
           TraceLine("openat", In(RunRoot, In(FetcherRoot, FetchedTxt)),
                     <<"O_WRONLY", "|", "O_CREAT", "|", "O_TRUNC", ",", "0666">>, 3, 0) }

\* write(fd, line) at a file offset: the file is extended with a hole when
\* it is shorter than the offset (it was truncated since), and a line
\* already at the offset is overwritten.
WriteAt(text, offset, line) ==
    IF offset < Len(text) THEN [text EXCEPT ![offset + 1] = line]
    ELSE text \o [k \in 1..(offset - Len(text)) |-> OtherLine] \o <<line>>

OverlapInit ==
    /\ tmpFile = <<>>
    /\ inodes = [i \in Invocations |-> <<>>]
    /\ invocations = [i \in Invocations |->
                         [pc |-> "start", fd |-> 0, offset |-> 0, opened |-> {},
                          reads |-> {}, writes |-> {}]]
    /\ backend = "strace"
    /\ workspaceRoot = RunRoot
    /\ rawTrace = <<>>
    /\ normPc = "main"
    /\ reads = {}
    /\ writes = {}
    /\ trackedPids = {}
    /\ MainIdle
    /\ ResolveIdle
    /\ MatchIdle
    /\ MoreIdle

\* Lines 625-635: strace starts and opens its output file.
OverlapSpawnStrace(i) ==
    /\ invocations[i].pc = "start"
    /\ IF tmpFile = <<>>
       THEN /\ tmpFile' = <<i>>
            /\ inodes' = [inodes EXCEPT ![i] = <<>>]
            /\ invocations' = [invocations EXCEPT ![i].pc = "tracing", ![i].fd = i]
       ELSE /\ tmpFile' = tmpFile
            /\ inodes' = [inodes EXCEPT ![tmpFile[1]] = <<>>]
            /\ invocations' = [invocations EXCEPT ![i].pc = "tracing",
                                                  ![i].fd = tmpFile[1]]
    /\ UNCHANGED <<normVars, mainVars, resolveVars, matchVars, moreVars>>

\* The task opens a file and strace writes the line.
OverlapTracerWrites(i) ==
    /\ invocations[i].pc = "tracing"
    /\ invocations[i].offset < MaxLines
    /\ \E line \in TaskOpens(i) \ invocations[i].opened :
          /\ inodes' = [inodes EXCEPT ![invocations[i].fd] =
                           WriteAt(@, invocations[i].offset, line)]
          /\ invocations' = [invocations EXCEPT ![i].offset = @ + 1,
                                                ![i].opened = @ \cup {line}]
    /\ UNCHANGED <<normVars, mainVars, resolveVars, matchVars, moreVars, tmpFile>>

\* Line 640: the task has ended and strace closes.
OverlapStraceClose(i) ==
    /\ invocations[i].pc = "tracing"
    /\ invocations' = [invocations EXCEPT ![i].pc = "closed"]
    /\ UNCHANGED <<normVars, mainVars, resolveVars, matchVars, moreVars, tmpFile, inodes>>

\* Lines 643-652: the file is read by name, unlinked and parsed; when
\* there is no file of that name the output is the empty string.
OverlapReadOutput(i) ==
    /\ invocations[i].pc = "closed"
    /\ LET r == parseStraceOutput(IF tmpFile = <<>> THEN <<>> ELSE inodes[tmpFile[1]])
       IN  invocations' = [invocations EXCEPT ![i].pc = "returned",
                                              ![i].reads = r.reads,
                                              ![i].writes = r.writes]
    /\ tmpFile' = <<>>
    /\ UNCHANGED <<normVars, mainVars, resolveVars, matchVars, moreVars, inodes>>

OverlapNext ==
    \E i \in Invocations :
        \/ OverlapSpawnStrace(i)
        \/ OverlapTracerWrites(i)
        \/ OverlapStraceClose(i)
        \/ OverlapReadOutput(i)

SpecOverlap == OverlapInit /\ [][OverlapNext]_vars

\* What the parser makes of the lines an invocation's own task caused.
OwnAccesses(i) ==
    LET own == CHOOSE seq \in [1..Cardinality(invocations[i].opened) -> invocations[i].opened] :
                   {seq[k] : k \in DOMAIN seq} = invocations[i].opened
    IN  parseStraceOutput(own)

\* C17: what an invocation returns from its tracing phase is what its own
\* task read and wrote, whatever another invocation does meanwhile.
C17_InvocationsIndependent ==
    \A i \in Invocations :
        invocations[i].pc = "returned" =>
            /\ invocations[i].reads = OwnAccesses(i).reads
            /\ invocations[i].writes = OwnAccesses(i).writes

-----------------------------------------------------------------------------
(* Totality of the classification.                                         *)

\* The observed accesses that pass the bookkeeping filter and the
\* directory filter.
Surviving(accesses) == {f \in TaskAccesses(accesses) : ~isDirectory(f)}

\* A listed task owns the read: the resolved inputs hold it or the inputs
\* of a listed task match it.
ReadDeclared(f) ==
    \/ isInResolvedInputs(resolvedInputs, f)
    \/ findMatchingInputTask(f, taskConfigs) # <<>>

\* A listed task owns the write: the outputs of a listed task match it.
WriteDeclared(f) == findMatchingOutputTask(f, taskConfigs) # <<>>

\* C18: in the report, every surviving read is declared, or a reported
\* cross-project read, or a reported undeclared read, and every surviving
\* write is declared or a reported undeclared write: no surviving path is
\* left without a verdict.
C18_ClassificationTotal ==
    pc = "reported" =>
        /\ \A f \in Surviving(reads) :
              \/ ReadDeclared(f)
              \/ f \in crossProjectReads
              \/ f \in undeclaredReads
        /\ \A f \in Surviving(writes) :
              \/ WriteDeclared(f)
              \/ f \in undeclaredWrites

-----------------------------------------------------------------------------
(* Cross-project reads and the declared inputs.                            *)

\* C19: a read the report lists in crossProjectReads is matched by the
\* inputs of no listed task: a read that the inputs of the task under test
\* or of a listed dependency task match (negations applied) is never a
\* cross-project read, even under the root of another project.
C19_CrossProjectOnlyUnclaimed ==
    pc = "reported" =>
        \A f \in crossProjectReads : findMatchingInputTask(f, taskConfigs) = <<>>

-----------------------------------------------------------------------------
(* Ownership of a path among the listed tasks.                             *)

\* The config of the task under test.
TaskUnderTest == getNxProjectConfig(nx.projects, project, target)

\* The configs of the other targets of the project under test.
SameProjectTasks ==
    {getNxProjectConfig(nx.projects, project, t) :
        t \in DOMAIN nx.projects[project].targets \ {target}}

\* The inputs of the i-th listed task match the path.
InputsMatch(f, i) ==
    matchesPatterns(nx.namedInputs, f, taskConfigs[i].inputs, taskConfigs[i].root)

\* The outputs of the i-th listed task match the path.
OutputsMatch(f, i) ==
    matchesPatterns(nx.namedInputs, f, taskConfigs[i].outputs, taskConfigs[i].root)

\* The tasks listed before the i-th one, and the i-th one.
UpTo(i) == SubSeq(taskConfigs, 1, i)

\* C20: once the task list is built, a non-empty list starts with the task
\* under test and continues with other tasks of the same project only; in
\* the report, the owner of an observed path is settled by the first listed
\* task whose patterns (positive minus negations) match it, whatever is
\* listed after it; so a path the task under test matches is owned through
\* the first entry, whether or not a dependency matches it too.
C20_FirstMatchOwnsTaskUnderTestFirst ==
    (pc # "config" /\ Len(taskConfigs) > 0) =>
        /\ taskConfigs[1] = TaskUnderTest
        /\ \A i \in 2..Len(taskConfigs) : taskConfigs[i] \in SameProjectTasks
        /\ \A f \in IF pc = "reported" THEN reads \cup writes ELSE {} :
              /\ \A i \in 1..Len(taskConfigs) :
                    (InputsMatch(f, i) /\ \A j \in 1..(i - 1) : ~InputsMatch(f, j)) =>
                        /\ findMatchingInputTask(f, taskConfigs) = taskConfigs[i].project
                        /\ findMatchingInputTask(f, taskConfigs)
                               = findMatchingInputTask(f, UpTo(i))
              /\ \A i \in 1..Len(taskConfigs) :
                    (OutputsMatch(f, i) /\ \A j \in 1..(i - 1) : ~OutputsMatch(f, j)) =>
                        /\ findMatchingOutputTask(f, taskConfigs) = taskConfigs[i].project
                        /\ findMatchingOutputTask(f, taskConfigs)
                               = findMatchingOutputTask(f, UpTo(i))
              /\ InputsMatch(f, 1) =>
                    findMatchingInputTask(f, UpTo(1)) = TaskUnderTest.project
              /\ OutputsMatch(f, 1) =>
                    findMatchingOutputTask(f, UpTo(1)) = TaskUnderTest.project

\* A report on app:build with prebuild listed after it: both match the
\* source file the task read, and only prebuild matches the test file
\* (the production inputs of build negate it).
C20_Witness ==
    /\ pc = "reported"
    /\ Len(taskConfigs) = 2
    /\ taskConfigs[1] = TaskUnderTest
    /\ taskConfigs[2] # TaskUnderTest
    /\ {In(AppRoot, MainTs), In(AppRoot, MainSpecTs)} \subseteq reads
    /\ InputsMatch(In(AppRoot, MainTs), 1)
    /\ InputsMatch(In(AppRoot, MainTs), 2)
    /\ ~InputsMatch(In(AppRoot, MainSpecTs), 1)
    /\ InputsMatch(In(AppRoot, MainSpecTs), 2)
    /\ [file |-> In(AppRoot, MainTs), declared |-> TRUE] \in relevantReads
    /\ [file |-> In(AppRoot, MainSpecTs), declared |-> TRUE] \in relevantReads

-----------------------------------------------------------------------------
(* Dependency references (^group) in the inputs of a task.                 *)

\* Every input of the call is a dependency reference.
OnlyDependencyReferences ==
    \A i \in 1..Len(matchInputs) :
        IsStringInput(matchInputs[i]) /\ StartsWith(matchInputs[i], <<"^">>)

\* C21: when every input of a task is a dependency reference (^group), no
\* file under the task's own project root is declared by it: the patterns
\* of the group are for the roots of the dependency tasks.
C21_DependencyReferenceNotOwnRoot ==
    (matchResult # <<>> /\ OnlyDependencyReferences /\ UnderMatchRoot) => ~Declared

-----------------------------------------------------------------------------
(* The pattern <dir>/**/* and its anchor directory.                        *)

\* A call of the current tracer whose only input is {projectRoot}/**/*.
AnyPathCall ==
    /\ tracerFile = "part_002"
    /\ matchResult # <<>>
    /\ matchInputs = <<RootAnyGlob>>

\* The path of the call is the anchor directory itself.
IsMatchRoot == AbsoluteOf(matchFile) = AbsoluteOf(matchRoot)

\* C22 as stated: the matcher compiled for <dir>/**/* accepts the path
\* <dir> itself and every path beneath <dir>.
C22_AnyPathAcceptsAnchor ==
    (AnyPathCall /\ (IsMatchRoot \/ UnderMatchRoot)) => Declared

\* C22 as amended: the matcher compiled for <dir>/**/* accepts exactly the
\* paths beneath <dir>, at any depth; it rejects <dir> itself.
C22_AnyPathAcceptsBelowAnchorOnly ==
    AnyPathCall => (Declared <=> UnderMatchRoot)

\* The call on the anchor directory itself has answered false.
C22_Witness ==
    /\ AnyPathCall
    /\ IsMatchRoot
    /\ matchRoot = <<"libs", "/", "app">>
    /\ matchResult = <<FALSE>>

-----------------------------------------------------------------------------
(* main() of the bpftrace tracer (IoTracer): the task is spawned, the      *)
(* tracer is started on its pid, main() waits for the task to close, lets  *)
(* 200 ms pass and stops the tracer.                                       *)

\* The most stderr chunks of bpftrace that contain 'Attaching'.
MaxChunks == 2

\* The most calls of cleanup() made after main() is done.
MaxCleanups == 1

\* targetProcess.pid
RootPid == 1

\* The lines bpftrace prints for the task in the runs of main().
BpfRunLines ==
    { TraceLine(k, workspaceRoot \o SrcFile, <<>>, 0, p) : k \in {"R", "W"}, p \in {1, 2} }

BpfInit ==
    /\ bpfPc = "main"
    /\ bpfProcess = "null"
    /\ isRunning = FALSE
    /\ pollInterval = 0
    /\ activeTimers = {}
    /\ timersCreated = 0
    /\ startPromise = "none"
    /\ startupTimeout = "none"
    /\ cleanupCalls = 0
    /\ backend = "bpftrace"
    /\ workspaceRoot = RunRoot
    /\ rawTrace = <<>>
    /\ normPc = "main"
    /\ reads = {}
    /\ writes = {}
    /\ trackedPids = {}
    /\ MainIdle
    /\ ResolveIdle
    /\ MatchIdle
    /\ OverlapIdle
    /\ BatchIdle

\* IoTracer.cleanup(), lines 224-237: the timer pollInterval names is
\* cleared, bpftrace is sent SIGINT and forgotten, isRunning is reset.
Cleanup ==
    /\ activeTimers' = activeTimers \ {pollInterval}
    /\ pollInterval' = 0
    /\ tracerProc' = IF bpfProcess = "set" /\ tracerProc = "running"
                     THEN "signalled" ELSE tracerProc
    /\ bpfProcess' = "null"
    /\ isRunning' = FALSE

\* Lines 270-277: the task is spawned first.
BpfSpawnTarget ==
    /\ bpfPc = "main"
    /\ targetProc' = "running"
    /\ bpfPc' = "spawned"
    /\ UNCHANGED <<normVars, pc, envVars, taskVars, tracerProc, taskExit, readBack, outputStream,
                   classVars, procExit, resolveVars, matchVars, overlapVars, batchVars,
                   bpfProcess, isRunning, pollInterval, activeTimers, timersCreated,
                   startPromise, startupTimeout, cleanupCalls>>

\* tracer.start(pid), lines 96-104 and 132-138: the root pid is tracked,
\* bpftrace is spawned and the startup timeout is armed.
BpfStart ==
    /\ bpfPc = "spawned"
    /\ trackedPids' = trackedPids \cup {RootPid}
    /\ bpfProcess' = "set"
    /\ tracerProc' = "running"
    /\ startPromise' = "pending"
    /\ startupTimeout' = "armed"
    /\ bpfPc' = "starting"
    /\ UNCHANGED <<backend, workspaceRoot, rawTrace, normPc, reads, writes,
                   pc, envVars, taskVars, targetProc, taskExit, readBack, outputStream,
                   classVars, procExit, resolveVars, matchVars, overlapVars, batchVars,
                   isRunning, pollInterval, activeTimers, timersCreated, cleanupCalls>>

\* Lines 122-125: bpftrace cannot be spawned; start() rejects.
BpfSpawnError ==
    /\ tracerProc = "running"
    /\ startPromise = "pending"
    /\ timersCreated = 0
    /\ Len(rawTrace) = 0
    /\ tracerProc' = "failed"
    /\ startPromise' = "rejected"
    /\ UNCHANGED <<normVars, pc, envVars, taskVars, targetProc, taskExit, readBack, outputStream,
                   classVars, procExit, resolveVars, matchVars, overlapVars, batchVars,
                   bpfPc, bpfProcess, isRunning, pollInterval, activeTimers,
                   timersCreated, startupTimeout, cleanupCalls>>

\* Lines 110-120 and 181-185: a stderr chunk that contains 'Attaching'
\* sets isRunning, starts a polling timer and resolves start().
BpfAttaching ==
    /\ tracerProc = "running"
    /\ timersCreated < MaxChunks
    /\ isRunning' = TRUE
    /\ timersCreated' = timersCreated + 1
    /\ activeTimers' = activeTimers \cup {timersCreated + 1}
    /\ pollInterval' = timersCreated + 1
    /\ startPromise' = IF startPromise = "pending" THEN "resolved" ELSE startPromise
    /\ UNCHANGED <<normVars, mainVars, resolveVars, matchVars, overlapVars, batchVars,
                   bpfPc, bpfProcess, startupTimeout, cleanupCalls>>

\* Lines 132-138: the startup timeout fires; when bpftrace has not
\* attached, cleanup() is called and start() rejects.
BpfStartupTimeout ==
    /\ startupTimeout = "armed"
    /\ bpfPc # "failed"
    /\ startupTimeout' = "fired"
    /\ IF ~isRunning
       THEN /\ Cleanup
            /\ startPromise' = IF startPromise = "pending" THEN "rejected"
                               ELSE startPromise
       ELSE UNCHANGED <<activeTimers, pollInterval, tracerProc, bpfProcess,
                        isRunning, startPromise>>
    /\ UNCHANGED <<normVars, pc, envVars, taskVars, targetProc, taskExit, readBack, outputStream,
                   classVars, procExit, resolveVars, matchVars, overlapVars, batchVars,
                   bpfPc, timersCreated, cleanupCalls>>

\* Lines 279-281: start() has resolved and main() goes on to wait for the
\* 'close' of the task.
BpfStarted ==
    /\ bpfPc = "starting"
    /\ startPromise = "resolved"
    /\ bpfPc' = "waiting"
    /\ UNCHANGED <<normVars, mainVars, resolveVars, matchVars, overlapVars, batchVars,
                   bpfProcess, isRunning, pollInterval, activeTimers, timersCreated,
                   startPromise, startupTimeout, cleanupCalls>>

\* Lines 323-328: start() has rejected; the catch of main() calls
\* cleanup(), kills the task and exits with 1.
BpfStartFailed ==
    /\ bpfPc = "starting"
    /\ startPromise = "rejected"
    /\ Cleanup
    /\ targetProc' = IF targetProc = "running" THEN "exited" ELSE targetProc
    /\ procExit' = <<1>>
    /\ bpfPc' = "failed"
    /\ UNCHANGED <<normVars, pc, envVars, taskVars, taskExit, readBack, outputStream, classVars,
                   resolveVars, matchVars, overlapVars, batchVars,
                   timersCreated, startPromise, startupTimeout, cleanupCalls>>

\* The task ends before main() listens for its 'close' (the listener is
\* added once start() has resolved, line 287).
BpfTargetExitsUnheard ==
    /\ bpfPc \in {"spawned", "starting"}
    /\ targetProc = "running"
    /\ targetProc' = "exited"
    /\ UNCHANGED <<normVars, pc, envVars, taskVars, tracerProc, taskExit, readBack, outputStream,
                   classVars, procExit, resolveVars, matchVars, overlapVars, batchVars, bpfVars>>

\* Lines 284-293: the task closes and main() goes on to the 200 ms delay.
BpfTargetClose ==
    /\ bpfPc = "waiting"
    /\ targetProc = "running"
    /\ targetProc' = "exited"
    /\ \E code \in ExitCodes : taskExit' = <<code>>
    /\ bpfPc' = "drain"
    /\ UNCHANGED <<normVars, pc, envVars, taskVars, tracerProc, readBack, outputStream,
                   classVars, procExit, resolveVars, matchVars, overlapVars, batchVars,
                   bpfProcess, isRunning, pollInterval, activeTimers, timersCreated,
                   startPromise, startupTimeout, cleanupCalls>>

\* Lines 295-299 and 214-222: after the delay tracer.stop() calls cleanup()
\* and returns what was recorded.
BpfMainStop ==
    /\ bpfPc = "drain"
    /\ Cleanup
    /\ bpfPc' = "stopped"
    /\ UNCHANGED <<normVars, pc, envVars, taskVars, targetProc, taskExit, readBack, outputStream,
                   classVars, procExit, resolveVars, matchVars, overlapVars, batchVars,
                   timersCreated, startPromise, startupTimeout, cleanupCalls>>

\* cleanup() is called once more on the stopped tracer.
BpfCleanupAgain ==
    /\ bpfPc = "stopped"
    /\ cleanupCalls < MaxCleanups
    /\ Cleanup
    /\ cleanupCalls' = cleanupCalls + 1
    /\ UNCHANGED <<normVars, pc, envVars, taskVars, targetProc, taskExit, readBack, outputStream,
                   classVars, procExit, resolveVars, matchVars, overlapVars, batchVars,
                   bpfPc, timersCreated, startPromise, startupTimeout>>

\* Lines 127-129: bpftrace exits, on the signal or by itself; the handler
\* only logs.
BpfProcessExits ==
    /\ tracerProc \in {"running", "signalled"}
    /\ tracerProc' = "exited"
    /\ UNCHANGED <<normVars, pc, envVars, taskVars, targetProc, taskExit, readBack, outputStream,
                   classVars, procExit, resolveVars, matchVars, overlapVars, batchVars, bpfVars>>

\* Lines 182-184 and 187-212: a polling timer that was not cleared fires
\* and updateTrackedPids adds the children pgrep reports.
BpfPollTick ==
    /\ activeTimers # {}
    /\ bpfPc # "failed"
    /\ \E newPids \in SUBSET (UNION {ChildrenOf(pid) : pid \in trackedPids} \ trackedPids) :
          /\ newPids # {}
          /\ trackedPids' = trackedPids \cup newPids
    /\ UNCHANGED <<backend, workspaceRoot, rawTrace, normPc, reads, writes, mainVars,
                   sideVars>>

\* Lines 106-108 and 141-179: bpftrace prints a line and processOutput
\* runs on it.
BpfStdout ==
    /\ tracerProc \in {"running", "signalled"}
    /\ bpfPc # "failed"
    /\ Len(rawTrace) < MaxLines
    /\ \E line \in BpfRunLines :
          /\ rawTrace' = Append(rawTrace, line)
          /\ LET r == processOutput(line, trackedPids, [reads |-> reads, writes |-> writes])
             IN  reads' = r.reads /\ writes' = r.writes
    /\ UNCHANGED <<backend, workspaceRoot, normPc, trackedPids, mainVars, sideVars>>

BpfNext ==
    \/ BpfSpawnTarget
    \/ BpfStart
    \/ BpfSpawnError
    \/ BpfAttaching
    \/ BpfStartupTimeout
    \/ BpfStarted
    \/ BpfStartFailed
    \/ BpfTargetExitsUnheard
    \/ BpfTargetClose
    \/ BpfMainStop
    \/ BpfCleanupAgain
    \/ BpfProcessExits
    \/ BpfPollTick
    \/ BpfStdout

SpecBpf == BpfInit /\ [][BpfNext]_vars

\* C23: while the traced task runs, the tracer process has been started
\* and has not been stopped: the tracer starts before the task is spawned
\* and is stopped only after the task has exited.
C23_TracerCoversTask ==
    targetProc = "running" => tracerProc = "running"

-----------------------------------------------------------------------------
(* The bpftrace tracer: lines and tracked pids.                            *)

\* The line the tracer has just been given.
LastLine == rawTrace'[Len(rawTrace')]

\* The path of a line passes the workspace filter and the ignore filter.
PassesPathFilters(line) ==
    /\ StartsWith(line.path, workspaceRoot)
    /\ \A dir \in BpfIgnoredDirs : ~Includes(line.path, <<"/">> \o dir \o <<"/">>)

\* What a line of the form '<R|W> <pid> <path>' adds to the set of its
\* letter when the pids in tracked are the tracked ones.
AddedBy(line, letter, tracked) ==
    IF line.kind = letter /\ line.pid \in tracked /\ PassesPathFilters(line)
    THEN {PathRelative(workspaceRoot, workspaceRoot, line.path)}
    ELSE {}

\* C24: in the bpftrace tracer every line given to processOutput adds its
\* path to the reads (R) or the writes (W) exactly when its pid is tracked
\* at that moment and its path passes the workspace and ignore filters; no
\* other step changes the reads or the writes, so a line dropped because
\* its pid was not tracked yet stays dropped when the pid is tracked later;
\* the tracked pids hold the root pid and are never removed.
C24_RecordedIffTrackedThen ==
    [][backend = "bpftrace" =>
          /\ RootPid \in trackedPids
          /\ trackedPids \subseteq trackedPids'
          /\ IF rawTrace' # rawTrace
             THEN /\ reads' = reads \cup AddedBy(LastLine, "R", trackedPids)
                  /\ writes' = writes \cup AddedBy(LastLine, "W", trackedPids)
                  /\ trackedPids' = trackedPids
             ELSE reads' = reads /\ writes' = writes]_vars

\* A read of pid 2 arrived before pid 2 was tracked and nothing was
\* recorded for it, although pid 2 is tracked now.
C24_Witness ==
    /\ backend = "bpftrace"
    /\ 2 \in trackedPids
    /\ reads = {}
    /\ \E i \in 1..Len(rawTrace) :
          /\ rawTrace[i].kind = "R"
          /\ rawTrace[i].pid = 2
          /\ PassesPathFilters(rawTrace[i])

-----------------------------------------------------------------------------
(* What one call of resolveNamedInput returns, against the named inputs     *)
(* read as a graph.                                                        *)

\* The named input a token refers to, as its name or as ^name; <<>> for a
\* token that refers to none.
GroupOf(namedInputs, token) ==
    IF ~IsStringInput(token) THEN <<>>
    ELSE IF token \in DOMAIN namedInputs THEN token
    ELSE IF StartsWith(token, <<"^">>) /\ Tail(token) \in DOMAIN namedInputs
    THEN Tail(token)
    ELSE <<>>

\* The tokens reached from the tokens of seen through references.
RECURSIVE ReachableTokens(_, _)
ReachableTokens(namedInputs, seen) ==
    LET listed == UNION { Elements(namedInputs[GroupOf(namedInputs, t)]) :
                            t \in { s \in seen : GroupOf(namedInputs, s) # <<>> } }
    IN  IF listed \subseteq seen THEN seen
        ELSE ReachableTokens(namedInputs, seen \cup listed)

\* The pattern strings among them.
ReachableLiterals(namedInputs, token) ==
    { t \in ReachableTokens(namedInputs, {token}) :
        IsStringInput(t) /\ GroupOf(namedInputs, t) = <<>> }

\* The call expandInputs made for one input has returned to it.
TopLevelResolved ==
    resolvePc = "resolving" /\ Len(callStack) = 1 /\ Len(callStack[1]) = 0

\* The patterns one call returns are the reachable ones.
ResolvedAreReachable ==
    TopLevelResolved =>
        Elements(resolvedPatterns)
            = ReachableLiterals(namedInputsCache, expandingInputs[nextInput - 1])

\* Every expansion marks its token visited, so a named input is expanded
\* once for every visited token that refers to it.
ExpandedOnce ==
    \A v \in visitedInputs, w \in visitedInputs :
        GroupOf(namedInputsCache, v) = GroupOf(namedInputsCache, w) => v = w

\* C25: whatever the named inputs are (cyclic, diamond-shaped, listing a
\* named input both as name and as ^name), one call of resolveNamedInput
\* returns exactly the pattern strings reachable from its token through
\* the references, and expands no named input more than once.
C25_ReachableLiteralsExpandedOnce ==
    ResolvedAreReachable /\ ExpandedOnce

-----------------------------------------------------------------------------
(* Soundness of the reported undeclared accesses.                          *)

\* No listed task's inputs match the path.
NoInputsMatch(f) == \A i \in 1..Len(taskConfigs) : ~InputsMatch(f, i)

\* No listed task's outputs match the path.
NoOutputsMatch(f) == \A i \in 1..Len(taskConfigs) : ~OutputsMatch(f, i)

\* C26: in the report, every undeclared read is an observed read that is
\* no bookkeeping file and no directory, is not among the resolved inputs
\* and is matched by the inputs of no listed task (negations applied);
\* every undeclared write is an observed write that is no bookkeeping file
\* and no directory and is matched by the outputs of no listed task; the
\* printed report lists these same paths.
C26_UndeclaredAreSound ==
    pc = "reported" =>
        /\ \A f \in undeclaredReads :
              /\ f \in reads
              /\ ~isNxInfrastructure(f)
              /\ f \notin nx.directories
              /\ ~(resolvedInputs.known /\ f \in resolvedInputs.files)
              /\ NoInputsMatch(f)
        /\ \A f \in undeclaredWrites :
              /\ f \in writes
              /\ ~isNxInfrastructure(f)
              /\ f \notin nx.directories
              /\ NoOutputsMatch(f)
        /\ report[1].undeclaredReads = {JsonString(f) : f \in undeclaredReads}
        /\ report[1].undeclaredWrites = {JsonString(f) : f \in undeclaredWrites}

\* A report with an undeclared read and an undeclared write, next to a
\* read that the resolved inputs declare and a write that the outputs
\* declare.
C26_Witness ==
    /\ pc = "reported"
    /\ undeclaredReads # {}
    /\ undeclaredWrites # {}
    /\ \E f \in Surviving(reads) : isInResolvedInputs(resolvedInputs, f)
    /\ \E f \in Surviving(writes) : ~NoOutputsMatch(f)

-----------------------------------------------------------------------------
(* The task list against the dependsOn graph.                               *)

\* The targets of the project reached from the targets of seen through the
\* dependsOn entries that collectConfigs follows; a target that does not
\* exist has no entries.
RECURSIVE ReachedTargets(_, _, _)
ReachedTargets(projects, proj, seen) ==
    LET known == {t \in seen : getNxProjectConfig(projects, proj, t).ok}
        listed == UNION { {DepTarget(proj, projects[proj].targets[t].dependsOn[i]) :
                             i \in 1..Len(projects[proj].targets[t].dependsOn)} :
                          t \in known } \ { <<>> }
    IN  IF listed \subseteq seen THEN seen
        ELSE ReachedTargets(projects, proj, seen \cup listed)

\* The configurations of the reached targets that can be fetched.
ReachedConfigs(projects, proj, tgt) ==
    { getNxProjectConfig(projects, proj, t) :
        t \in { r \in ReachedTargets(projects, proj, {tgt}) :
                  getNxProjectConfig(projects, proj, r).ok } }

\* The dependsOn entries of the task under test.
OwnDependsOn == nx.projects[project].targets[target].dependsOn

\* C27: getTaskConfig returns for every dependsOn graph the model holds
\* (a target that lists itself, two targets that list each other, an entry
\* for a target that does not exist); the list holds no task twice; it
\* holds exactly the configurations of the targets reached through the
\* entries followed that can be fetched, so an entry whose configuration
\* cannot be fetched adds nothing and the entries after it are collected.
C27_TaskListCollected ==
    [][(pc = "config" /\ pc' # "config") =>
          /\ \A i \in 1..Len(taskConfigs'), j \in 1..Len(taskConfigs') :
                taskConfigs'[i] = taskConfigs'[j] => i = j
          /\ Elements(taskConfigs') = ReachedConfigs(nx.projects, project, target)]_vars

\* The task under test lists a target that does not exist, then itself,
\* then a target that lists it back, and the list holds both tasks.
C27_Witness ==
    /\ pc = "reported"
    /\ Len(taskConfigs) = 2
    /\ Len(OwnDependsOn) = 3
    /\ ~getNxProjectConfig(nx.projects, project, DepTarget(project, OwnDependsOn[1])).ok
    /\ DepTarget(project, OwnDependsOn[2]) = target
    /\ taskConfigs[2] = getNxProjectConfig(nx.projects, project,
                                           DepTarget(project, OwnDependsOn[3]))
    /\ \E i \in 1..Len(taskConfigs[2].target.dependsOn) :
          DepTarget(project, taskConfigs[2].target.dependsOn[i]) = target


\* C28: once stop() or cleanup() has returned in main(), no polling timer
\* the tracer created is still active and isRunning is false, whatever
\* stderr chunks, startup timeouts and process events came before, and a
\* further cleanup() leaves it so.
C28_NoTimerAfterCleanup ==
    bpfPc \in {"stopped", "failed"} => (activeTimers = {} /\ ~isRunning)

-----------------------------------------------------------------------------
(* The batch runner: main() of run-all-traces calls the tracer for every   *)
(* build target of the workspace and keeps the results.                    *)

\* SKIP_PATTERNS: the prefixes and the whole names.
SkipPrefixes ==
    { <<"e2e-">>, <<"examples-">>, <<"linux-">>, <<"win32-">>, <<"darwin-">>,
      <<"freebsd-">>, <<"nx-dev">>, <<"ui-">>, <<"data-access-">>, <<"feature-">>,
      <<"graph-">>, <<"tools-">> }
SkipNames == { <<"astro-docs">>, <<"docs">> }

shouldSkipProject(proj) ==
    \/ proj \in SkipNames
    \/ \E prefix \in SkipPrefixes : StartsWith(proj, prefix)

TARGET_WHITELIST == { <<"build">>, <<"build-base">>, <<"build-native">> }

\* What `nx show projects` lists, and the targets `nx show project` gives.
ShownProjects ==
    << <<"app">>, <<"e2e-", "app">>, <<"lib">>, <<"docs">>, <<"data-processor">> >>

ShownTargets(proj) ==
    IF proj = <<"app">> THEN << <<"build">>, <<"prebuild">> >>
    ELSE IF proj = <<"lib">> THEN << <<"build-base">>, <<"test">>, <<"build">> >>
    ELSE IF proj = <<"data-processor">> THEN << <<"process-data">> >>
    ELSE << <<"build">> >>

\* getProjects()
getProjects(shown) == SelectSeq(shown, LAMBDA p : ~shouldSkipProject(p))

\* getProjectTargets(project)
getProjectTargets(proj) ==
    SelectSeq(ShownTargets(proj), LAMBDA t : t \in TARGET_WHITELIST)

\* The pairs the two loops of main() visit, in order.
RECURSIVE TasksOf(_)
TasksOf(projects) ==
    IF Len(projects) = 0 THEN <<>>
    ELSE LET targets == getProjectTargets(Head(projects))
         IN  [i \in 1..Len(targets) |-> [project |-> Head(projects), target |-> targets[i]]]
             \o TasksOf(Tail(projects))

\* `${project}:${target}`
TaskId(task) == task.project \o <<":">> \o task.target

\* `${project}__${target}`.replace(/[^a-zA-Z0-9_-]/g, '_')
SafeTaskId(task) ==
    ReplaceSeq(ReplaceSeq(ReplaceSeq(task.project \o <<"__">> \o task.target,
                                     <<".">>, <<"_">>), <<"/">>, <<"_">>), <<":">>, <<"_">>)

\* The paths the reports of the traced tasks may list.
BatchUndeclaredRead == In(ProcessorRoot, UndeclaredTxt)
BatchUndeclaredWrite == In(ProcessorRoot, ExtraTxt)
BatchCrossProjectRead == In(FetcherRoot, FetchedTxt)

\* What the tracer prints for a task: a text that ends with the report
\* after "JSON OUTPUT:", a text without that marker, a text whose braces
\* after the marker balance around something JSON.parse rejects; or
\* spawnSync throws.
TracerOutputsFor(task) ==
    { [kind |-> "json",
       data |-> JsonReport(<< [project |-> task.project] >>, task.target, ur, uw, cr, code)] :
          ur \in SUBSET {BatchUndeclaredRead}, uw \in SUBSET {BatchUndeclaredWrite},
          cr \in SUBSET {BatchCrossProjectRead}, code \in 0..MaxExitCode }
    \cup { [kind |-> k, data |-> <<>>] : k \in {"no marker", "malformed", "threw"} }

\* runTrace(project, target), given what the tracer printed.
runTrace(task, output) ==
    IF output.kind = "json"
    THEN [taskId |-> TaskId(task), success |-> TRUE,
          exitCode |-> output.data.exitCode,
          undeclaredReads |-> output.data.undeclaredReads,
          undeclaredWrites |-> output.data.undeclaredWrites]
    ELSE [taskId |-> TaskId(task), success |-> FALSE,
          error |-> IF output.kind = "malformed" THEN "JSON parse error"
                    ELSE IF output.kind = "no marker" THEN "No JSON output found"
                    ELSE "err.message"]

\* result.success && (undeclaredReads?.length > 0 || undeclaredWrites?.length > 0)
HasIssues(result) ==
    IF result.success
    THEN result.undeclaredReads # {} \/ result.undeclaredWrites # {}
    ELSE FALSE

\* allResults.filter(r => r.success).length
SuccessCount(results) == Len(SelectSeq(results, LAMBDA r : r.success))

\* updateResultsFile(issuesFound, totalTasks, successfulTraces): the
\* figures and the sections of RESULTS.md.
updateResultsFile(issues, totalTasks, successfulTraces) ==
    [ totalTasks |-> totalTasks,
      successfulTraces |-> successfulTraces,
      tasksWithIssues |-> Len(issues),
      issues |-> issues,
      noIssuesFound |-> Len(issues) = 0 ]

BatchInit ==
    /\ batchPc = "main"
    /\ batchQueue = <<>>
    /\ tracerOutputs = <<>>
    /\ allResults = <<>>
    /\ issuesFound = <<>>
    /\ resultFiles = <<>>
    /\ batchConsole = <<>>
    /\ resultsMd = <<>>
    /\ summary = <<>>
    /\ backend = "none"
    /\ workspaceRoot = RunRoot
    /\ rawTrace = <<>>
    /\ normPc = "idle"
    /\ reads = {}
    /\ writes = {}
    /\ trackedPids = {}
    /\ MainIdle
    /\ ResolveIdle
    /\ MatchIdle
    /\ OverlapIdle
    /\ BpfIdle

\* main(), up to the loops: getProjects (an error gives no project) and
\* the first RESULTS.md.
BatchStart ==
    /\ batchPc = "main"
    /\ \E shown \in {ShownProjects, <<>>} : batchQueue' = TasksOf(getProjects(shown))
    /\ resultsMd' = <<updateResultsFile(issuesFound, 0, 0)>>
    /\ batchPc' = "loop"
    /\ UNCHANGED <<normVars, mainVars, resolveVars, matchVars, overlapVars, bpfVars,
                   tracerOutputs, allResults, issuesFound, resultFiles, batchConsole, summary>>

\* One pass of the inner loop: the task is traced, its result is kept and
\* saved, the issues are tracked, the verdict is printed and RESULTS.md is
\* written again.
BatchTraceTask ==
    /\ batchPc = "loop"
    /\ Len(batchQueue) > 0
    /\ \E output \in TracerOutputsFor(Head(batchQueue)) :
          LET task == Head(batchQueue)
              result == runTrace(task, output)
              results == Append(allResults, result)
              issues == IF HasIssues(result)
                        THEN Append(issuesFound,
                                    [taskId |-> result.taskId,
                                     undeclaredReads |-> result.undeclaredReads,
                                     undeclaredWrites |-> result.undeclaredWrites])
                        ELSE issuesFound
          IN  /\ tracerOutputs' = Append(tracerOutputs, output)
              /\ allResults' = results
              /\ resultFiles' = (SafeTaskId(task) :> result) @@ resultFiles
              /\ issuesFound' = issues
              /\ batchConsole' = Append(batchConsole,
                                        IF HasIssues(result) THEN "Found undeclared"
                                        ELSE IF result.success
                                        THEN "All I/O declared correctly"
                                        ELSE "Error")
              /\ resultsMd' = <<updateResultsFile(issues, Len(results), SuccessCount(results))>>
    /\ batchQueue' = Tail(batchQueue)
    /\ UNCHANGED <<normVars, mainVars, resolveVars, matchVars, overlapVars, bpfVars,
                   batchPc, summary>>

\* After the loops: summary.json.
BatchSummary ==
    /\ batchPc = "loop"
    /\ Len(batchQueue) = 0
    /\ summary' = << [ totalTasks |-> Len(allResults),
                       successfulTraces |-> SuccessCount(allResults),
                       tasksWithIssues |-> Len(issuesFound),
                       issues |-> issuesFound ] >>
    /\ batchPc' = "done"
    /\ UNCHANGED <<normVars, mainVars, resolveVars, matchVars, overlapVars, bpfVars,
                   batchQueue, tracerOutputs, allResults, issuesFound, resultFiles,
                   batchConsole, resultsMd>>

BatchNext ==
    \/ BatchStart
    \/ BatchTraceTask
    \/ BatchSummary

SpecBatch == BatchInit /\ [][BatchNext]_vars

\* The violations a report of the tracer lists.
ViolationsOf(data) ==
    data.undeclaredReads \cup data.undeclaredWrites \cup data.crossProjectReads

\* The i-th task traced was traced successfully and its report lists a
\* violation.
TracedWithViolation(i) ==
    /\ allResults[i].success
    /\ ViolationsOf(tracerOutputs[i].data) # {}

\* The figures RESULTS.md or summary.json hold are in order.
TotalsInOrder(figures) ==
    /\ figures.tasksWithIssues <= figures.successfulTraces
    /\ figures.successfulTraces <= figures.totalTasks

\* C29: in the batch runner, every task traced successfully whose report
\* lists an undeclared read, an undeclared write or a cross-project read
\* is in the issues list, its result file holds the violations of the
\* report, and its printed verdict is not "All I/O declared correctly";
\* after every task, and in the summary, tasksWithIssues <=
\* successfulTraces <= totalTasks.
C29_ViolationsAreIssues ==
    /\ \A i \in 1..Len(allResults) :
          TracedWithViolation(i) =>
              /\ \E k \in 1..Len(issuesFound) : issuesFound[k].taskId = allResults[i].taskId
              /\ \E name \in DOMAIN resultFiles :
                    /\ resultFiles[name].taskId = allResults[i].taskId
                    /\ resultFiles[name].success
                    /\ resultFiles[name].undeclaredReads \cup resultFiles[name].undeclaredWrites
                           = ViolationsOf(tracerOutputs[i].data)
              /\ batchConsole[i] # "All I/O declared correctly"
    /\ \A i \in 1..Len(resultsMd) : TotalsInOrder(resultsMd[i])
    /\ \A i \in 1..Len(summary) : TotalsInOrder(summary[i])

\* The same for the reports without cross-project reads.
BatchWithoutCrossProject ==
    (\A i \in 1..Len(tracerOutputs) :
        tracerOutputs[i].kind = "json" => tracerOutputs[i].data.crossProjectReads = {})
    => C29_ViolationsAreIssues

-----------------------------------------------------------------------------
(* traceMacOS after the task has closed.                                    *)

\* The steps of traceMacOS after the task has closed are timers and the
\* 'close' of a stream that was ended: each of them happens.  Nothing
\* makes fs_usage exit.
SpecFsUsageLive ==
    /\ Spec
    /\ WF_vars(KillFsUsage)
    /\ WF_vars(WaitFsUsage)
    /\ WF_vars(OutputStreamClose)
    /\ WF_vars(ReadFsUsageOutput)

\* The task has closed with the code and traceMacOS has not returned.
TaskClosedWith(code) ==
    /\ backend = "fs_usage"
    /\ pc = "mac_drain"
    /\ taskExit = <<code>>

\* traceMacOS has returned the code and what it parsed from the text it
\* read, the empty text when the file could not be read.
TraceReturnedWith(code) ==
    /\ pc = "traced"
    /\ taskExit = <<code>>
    /\ readBack # "none"
    /\ reads = parseFsUsageOutput(IF readBack = "read" THEN rawTrace ELSE <<>>).reads
    /\ writes = parseFsUsageOutput(IF readBack = "read" THEN rawTrace ELSE <<>>).writes

====
